---- MODULE Spec2Model ----
(***************************************************************************)
(* Model of the AutoPipe stack resolution engine                           *)
(* (autopipe/core/resolver.py, autopipe/core/models.py).                   *)
(*                                                                         *)
(* A caller holds a list of DetectedStack records and a root path, calls   *)
(* Resolver.resolve on them, may reorder the list and call again.          *)
(* Resolver._get_priority is modelled line by line; Python's sorted() is   *)
(* modelled as the stable insertion sort it performs on short lists.       *)
(***************************************************************************)
EXTENDS Integers, Sequences, FiniteSets, TLC

VARIABLES
    detected_stacks,  \* the caller's candidate list (a sequence of DetectedStack)
    root_path,        \* the root path handed to resolve, a sequence of path segments
    fs,               \* the manifests on disk: path -> directory record
    result,           \* outcome of the last call of resolve, NoResult when none is pending
    prev,             \* the call before the last one: its input, environment and result
    pc,               \* position inside the operation a specification steps through
    base_priority,    \* the local base_priority of _get_priority
    detectors,        \* Analyzer.detectors: what each registered detector finds where
    cli               \* a run of the generate or deploy command: its steps and exit status

vars == <<detected_stacks, root_path, fs, result, prev, pc, base_priority,
          detectors, cli>>

\* ------------------------------------------------------------------------
\* Bounds
\* ------------------------------------------------------------------------
MaxLen == 3

\* Python's None, and the marker of a key that a parsed manifest does not have
None == "<None>"
Absent == "<absent>"
\* a JSON or TOML value that is not a string and is truthy, such as ["x"]
NonStr == "<non-str>"

\* ------------------------------------------------------------------------
\* models.py: the enums
\* ------------------------------------------------------------------------
Language == {"java", "kotlin", "python", "nodejs", "typescript", "go",
             "dotnet", "php", "unknown"}

Framework == {"spring_boot", "quarkus", "micronaut", "ktor",
              "django", "fastapi", "flask", "aiohttp",
              "react", "nextjs", "nestjs", "express", "vue", "nuxt", "angular",
              "laravel", "symfony", "yii", "codeigniter",
              "aspnet_core", "blazor",
              "gin", "echo", "fiber", "none"}

\* DetectedStack with the defaults of models.py for the fields the engine reads
DetectedStack(language, framework, has_dockerfile, has_tests, project_root) ==
    [language |-> language, framework |-> framework,
     has_dockerfile |-> has_dockerfile, has_tests |-> has_tests,
     project_root |-> project_root, config_file |-> None]

\* ------------------------------------------------------------------------
\* resolver.py: the priority tables
\* ------------------------------------------------------------------------
LANGUAGE_PRIORITY ==
    <<"java", "kotlin", "dotnet", "go", "python", "php", "typescript", "nodejs">>

FRAMEWORK_PRIORITY ==
    [f \in {"spring_boot", "quarkus", "micronaut", "ktor",
            "django", "fastapi", "flask", "aiohttp",
            "nestjs", "express", "nextjs", "nuxt", "angular", "vue", "react",
            "gin", "echo", "fiber",
            "laravel", "symfony", "yii", "codeigniter",
            "aspnet_core", "blazor"} |->
        CASE f = "spring_boot" -> 0
          [] f = "quarkus"     -> 1
          [] f = "micronaut"   -> 2
          [] f = "ktor"        -> 3
          [] f = "django"      -> 0
          [] f = "fastapi"     -> 1
          [] f = "flask"       -> 2
          [] f = "aiohttp"     -> 3
          [] f = "nestjs"      -> 0
          [] f = "express"     -> 1
          [] f = "nextjs"      -> 10
          [] f = "nuxt"        -> 11
          [] f = "angular"     -> 20
          [] f = "vue"         -> 21
          [] f = "react"       -> 22
          [] f = "gin"         -> 0
          [] f = "echo"        -> 1
          [] f = "fiber"       -> 2
          [] f = "laravel"     -> 0
          [] f = "symfony"     -> 1
          [] f = "yii"         -> 2
          [] f = "codeigniter" -> 3
          [] f = "aspnet_core" -> 0
          [] f = "blazor"      -> 1]

\* list.index(x): 0-based position of the first element equal to x;
\* -1 stands for the ValueError raised when x is not in the list
index(list, x) ==
    IF \E i \in 1..Len(list) : list[i] = x
    THEN (CHOOSE i \in 1..Len(list) :
              list[i] = x /\ \A j \in 1..(i - 1) : list[j] # x) - 1
    ELSE -1

\* Faulty variant: the first call that meets an unlisted language appends it to the
\* class-level table, so later calls find it at index 8
language_base_learning(stack) ==
    IF index(LANGUAGE_PRIORITY, stack.language) = -1
    THEN IF prev = [kind |-> "none"] THEN 999 ELSE Len(LANGUAGE_PRIORITY) * 100
    ELSE index(LANGUAGE_PRIORITY, stack.language) * 100

\* _get_priority, lines 143-152: base priority from the language, plus the
\* framework priority
language_base(stack) ==
    IF index(LANGUAGE_PRIORITY, stack.language) = -1
    THEN 999
    ELSE index(LANGUAGE_PRIORITY, stack.language) * 100

\* Faulty variant: a framework outside the table counts 0
framework_priority_default0(stack) ==
    IF stack.framework \in DOMAIN FRAMEWORK_PRIORITY
    THEN FRAMEWORK_PRIORITY[stack.framework]
    ELSE 0

framework_priority(stack) ==
    IF stack.framework \in DOMAIN FRAMEWORK_PRIORITY
    THEN FRAMEWORK_PRIORITY[stack.framework]
    ELSE 50

base_with_framework(stack) == language_base(stack) + framework_priority(stack)

\* _get_priority, lines 154-177: the adjustments, each its own if statement
\* Faulty variant: the TypeScript backend boost is added instead of subtracted
typescript_backend_penalty(stack) ==
    IF stack.language = "typescript" /\ stack.framework \in {"nestjs", "express"}
    THEN 50 ELSE 0

typescript_backend_adjust(stack) ==
    IF stack.language = "typescript" /\ stack.framework \in {"nestjs", "express"}
    THEN -50 ELSE 0

\* Faulty variant: the frontend penalty is subtracted instead of added
nodejs_frontend_boost(stack) ==
    IF stack.language = "nodejs" /\ stack.framework \in {"react", "vue", "angular"}
    THEN -200 ELSE 0

\* Faulty variant: the frontend penalty is 20 instead of 200
nodejs_frontend_adjust20(stack) ==
    IF stack.language = "nodejs" /\ stack.framework \in {"react", "vue", "angular"}
    THEN 20 ELSE 0

nodejs_frontend_adjust(stack) ==
    IF stack.language = "nodejs" /\ stack.framework \in {"react", "vue", "angular"}
    THEN 200 ELSE 0

\* Faulty variant: the Ktor boost is 100 instead of 10
kotlin_ktor_adjust100(stack) ==
    IF stack.language = "kotlin" /\ stack.framework = "ktor"
    THEN -100 ELSE 0

kotlin_ktor_adjust(stack) ==
    IF stack.language = "kotlin" /\ stack.framework = "ktor"
    THEN -10 ELSE 0

dockerfile_adjust(stack) == IF stack.has_dockerfile THEN -5 ELSE 0

tests_adjust(stack) == IF stack.has_tests THEN -3 ELSE 0

\* Faulty variant: has_tests is an elif of has_dockerfile
adjust_elif(stack, base) ==
    base + typescript_backend_adjust(stack) + nodejs_frontend_adjust(stack)
         + kotlin_ktor_adjust(stack)
         + (IF stack.has_dockerfile THEN -5 ELSE tests_adjust(stack))

adjust(stack, base) ==
    base + typescript_backend_adjust(stack) + nodejs_frontend_adjust(stack)
         + kotlin_ktor_adjust(stack) + dockerfile_adjust(stack)
         + tests_adjust(stack)

_get_priority(stack) == adjust(stack, base_with_framework(stack))

\* ------------------------------------------------------------------------
\* sorted(list, key=...): the keys are computed once per element, then the
\* elements are put in ascending key order by a stable insertion sort.  The
\* result is the sequence of input positions, so that equal-valued stacks
\* remain distinguishable objects.
\* ------------------------------------------------------------------------
\* Faulty variant: an unstable sort, equal keys end in reverse input order
RECURSIVE insert_unstable(_, _, _)
insert_unstable(sorted_idx, x, keys) ==
    IF sorted_idx = <<>> THEN <<x>>
    ELSE IF keys[Head(sorted_idx)] < keys[x]
         THEN <<Head(sorted_idx)>> \o insert_unstable(Tail(sorted_idx), x, keys)
         ELSE <<x>> \o sorted_idx

\* Faulty variant: a descending sort (reverse=True)
RECURSIVE insert_descending(_, _, _)
insert_descending(sorted_idx, x, keys) ==
    IF sorted_idx = <<>> THEN <<x>>
    ELSE IF keys[Head(sorted_idx)] >= keys[x]
         THEN <<Head(sorted_idx)>> \o insert_descending(Tail(sorted_idx), x, keys)
         ELSE <<x>> \o sorted_idx

RECURSIVE insert(_, _, _)
insert(sorted_idx, x, keys) ==
    IF sorted_idx = <<>> THEN <<x>>
    ELSE IF keys[Head(sorted_idx)] <= keys[x]
         THEN <<Head(sorted_idx)>> \o insert(Tail(sorted_idx), x, keys)
         ELSE <<x>> \o sorted_idx

RECURSIVE sort_prefix(_, _)
sort_prefix(keys, n) ==
    IF n = 0 THEN <<>> ELSE insert(sort_prefix(keys, n - 1), n, keys)

sorted(keys) == sort_prefix(keys, Len(keys))

priority_keys(stacks) == [i \in 1..Len(stacks) |-> _get_priority(stacks[i])]

\* ------------------------------------------------------------------------
\* The file system as metadata extraction sees it.  fs maps a path to the
\* manifests of that directory; a path outside its domain is a directory
\* without manifests.  A manifest is Missing, Malformed (opening or parsing
\* it raises) or a record of the fields the extractor reads, each field
\* Absent (no such key or no regex match), None (JSON null or an XML element
\* without text), "" or a string.
\* ------------------------------------------------------------------------
Missing == [kind |-> "missing"]
Malformed == [kind |-> "malformed"]
NonDict == [kind |-> "nondict"]
Fields(name, version) == [kind |-> "ok", name |-> name, version |-> version]
NoSection == [present |-> FALSE, name |-> Absent, version |-> Absent]
Section(name, version) == [present |-> TRUE, name |-> name, version |-> version]
PyProject(poetry, project) == [kind |-> "ok", poetry |-> poetry, project |-> project]
ComposerName(full, has_slash, last, version) ==
    [kind |-> "ok", name |-> full, has_slash |-> has_slash, last |-> last,
     version |-> version]

EmptyDir ==
    [package_json |-> Missing, pyproject_toml |-> Missing, setup_py |-> Missing,
     pom_xml |-> Missing, build_gradle |-> Missing, settings_gradle |-> Missing,
     go_mod |-> Missing, csproj |-> <<>>, composer_json |-> Missing]

DirAt(files, path) == IF path \in DOMAIN files THEN files[path] ELSE EmptyDir

\* Faulty variant: only None counts as no name
truthy_not_none(v) == v # None

\* Python truthiness of an Optional[str]
truthy(v) == v \notin {None, ""}

\* dict.get(key, default)
get(value, default) == IF value = Absent THEN default ELSE value

\* Path(root_path).name
path_name(path) == IF path = <<>> THEN "" ELSE path[Len(path)]

\* f"auto-generated-{stack.language.value}"
auto_generated(language) ==
    CASE language = "java"       -> "auto-generated-java"
      [] language = "kotlin"     -> "auto-generated-kotlin"
      [] language = "python"     -> "auto-generated-python"
      [] language = "nodejs"     -> "auto-generated-nodejs"
      [] language = "typescript" -> "auto-generated-typescript"
      [] language = "go"         -> "auto-generated-go"
      [] language = "dotnet"     -> "auto-generated-dotnet"
      [] language = "php"        -> "auto-generated-php"
      [] language = "unknown"    -> "auto-generated-unknown"

\* Each extractor returns the pair <<name, version>>.
_extract_from_package_json(dir, name, version) ==
    LET f == dir.package_json IN
    IF f.kind = "ok"
    THEN <<get(f.name, name), get(f.version, version)>>
    ELSE <<name, version>>

_extract_from_python_config(dir, name, version) ==
    LET f == dir.pyproject_toml
        nv1 == IF f.kind # "ok" THEN <<name, version>>
               ELSE IF f.poetry.present
                    THEN <<get(f.poetry.name, name), get(f.poetry.version, version)>>
                    ELSE IF f.project.present
                         THEN <<get(f.project.name, name),
                                get(f.project.version, version)>>
                         ELSE <<name, version>>
        s == dir.setup_py
    IN  IF ~truthy(nv1[1]) /\ s.kind = "ok"
        THEN <<get(s.name, nv1[1]), get(s.version, nv1[2])>>
        ELSE nv1

_extract_from_jvm_config(dir, name, version) ==
    LET p == dir.pom_xml
        nv1 == IF p.kind = "ok"
               THEN <<get(p.name, name), get(p.version, version)>>
               ELSE <<name, version>>
        g == dir.build_gradle
        nv2 == IF ~truthy(nv1[1]) /\ g.kind = "ok"
               THEN <<get(g.name, nv1[1]), get(g.version, nv1[2])>>
               ELSE nv1
        s == dir.settings_gradle
    IN  IF ~truthy(nv2[1]) /\ s.kind = "ok"
        THEN <<get(s.name, nv2[1]), nv2[2]>>
        ELSE nv2

_extract_from_go_mod(dir, name, version) ==
    LET f == dir.go_mod IN
    IF f.kind = "ok" THEN <<get(f.name, name), version>> ELSE <<name, version>>

\* dir.csproj lists the *.csproj files of the directory in glob order, each
\* [file, stem, kind, version]; a config_file ending in .csproj is looked up
\* by its file name
CSPROJ_FILES == {"App.csproj", "Lib.csproj"}

_extract_from_csproj(dir, stack, name, version) ==
    LET named == stack.config_file \in CSPROJ_FILES
        hits == IF named
                THEN SelectSeq(dir.csproj, LAMBDA c : c.file = stack.config_file)
                ELSE dir.csproj
    IN  IF hits # <<>> /\ hits[1].kind = "ok"
        THEN <<hits[1].stem,
               IF truthy(get(hits[1].version, None)) THEN hits[1].version ELSE version>>
        ELSE <<name, version>>

_extract_from_composer(dir, name, version) ==
    LET f == dir.composer_json
        full_name == IF f.kind = "ok" THEN get(f.name, "") ELSE ""
    IN  IF f.kind = "ok"
        THEN <<IF truthy(full_name) /\ f.has_slash THEN f.last
               ELSE IF truthy(full_name) THEN full_name ELSE name,
               get(f.version, version)>>
        ELSE <<name, version>>

\* ProjectMetadata(name=..., version=...): both fields are declared str, so
\* the constructor raises a ValidationError on None and on a list
ProjectMetadata(name, version) ==
    IF name \in {None, NonStr} \/ version \in {None, NonStr}
    THEN [valid |-> FALSE, name |-> name, version |-> version]
    ELSE [valid |-> TRUE, name |-> name, version |-> version]

_extract_metadata(stack, path) ==
    LET dir == DirAt(fs, path)
        nv == CASE stack.language \in {"nodejs", "typescript"} ->
                       _extract_from_package_json(dir, None, "0.1.0")
                [] stack.language = "python" ->
                       _extract_from_python_config(dir, None, "0.1.0")
                [] stack.language \in {"java", "kotlin"} ->
                       _extract_from_jvm_config(dir, None, "0.1.0")
                [] stack.language = "go" ->
                       _extract_from_go_mod(dir, None, "0.1.0")
                [] stack.language = "dotnet" ->
                       _extract_from_csproj(dir, stack, None, "0.1.0")
                [] stack.language = "php" ->
                       _extract_from_composer(dir, None, "0.1.0")
                [] OTHER -> <<None, "0.1.0">>
        name == IF truthy(nv[1]) THEN nv[1]
                ELSE IF path_name(path) # "" THEN path_name(path)
                     ELSE auto_generated(stack.language)
    IN  ProjectMetadata(name, nv[2])

\* ------------------------------------------------------------------------
\* resolver.py: Resolver.resolve
\* ------------------------------------------------------------------------
NoContext == [kind |-> "none"]

ProjectContext(metadata, stack, path, is_monorepo, detected_projects) ==
    [metadata |-> [name |-> metadata.name, version |-> metadata.version],
     stack |-> stack, root_path |-> path, is_monorepo |-> is_monorepo,
     detected_projects |-> detected_projects]

\* line 86
is_monorepo(stacks) == Len(stacks) > 1

\* Faulty variant: detected_projects is handed the sorted list
detected_projects_sorted(stacks, sorted_stacks) ==
    IF is_monorepo(stacks)
    THEN [i \in 1..Len(stacks) |-> stacks[sorted_stacks[i]]]
    ELSE <<>>

\* line 108
detected_projects(stacks, sorted_stacks) ==
    IF is_monorepo(stacks) THEN stacks ELSE <<>>

\* The outcome of one call: how it ended, the priority keys sorted() computed,
\* the list positions whose metadata was extracted, the position of the
\* winner picked at line 92 (0 when none was picked) and the context returned.
\* Lines 85-109, the call on a non-empty list:
resolve_stacks(stacks, path) ==
    LET keys == priority_keys(stacks)
        sorted_stacks == sorted(keys)
        winner == sorted_stacks[1]
        metadata == _extract_metadata(stacks[winner], path)
    IN  IF ~metadata.valid
        THEN [outcome |-> "ValidationError", keys |-> keys,
              extracted |-> <<winner>>, winner |-> winner,
              context |-> NoContext]
        ELSE [outcome |-> "ok", keys |-> keys,
              extracted |-> <<winner>>, winner |-> winner,
              context |-> ProjectContext(metadata, stacks[winner], path,
                             is_monorepo(stacks),
                             detected_projects(stacks, sorted_stacks))]

\* Faulty variant: an empty list falls back to a default stack
resolve_default(stacks, path) ==
    resolve_stacks(IF stacks = <<>>
                   THEN <<[language |-> "unknown", framework |-> "none",
                           has_dockerfile |-> FALSE, has_tests |-> FALSE,
                           project_root |-> None, config_file |-> None]>>
                   ELSE stacks, path)

resolve(stacks, path) ==
    IF stacks = <<>>
    THEN [outcome |-> "ValueError", keys |-> <<>>, extracted |-> <<>>,
          winner |-> 0, context |-> NoContext]
    ELSE resolve_stacks(stacks, path)

\* ------------------------------------------------------------------------
\* The inputs
\* ------------------------------------------------------------------------
NodeReact == DetectedStack("nodejs", "react", FALSE, FALSE, None)
JavaSpring == DetectedStack("java", "spring_boot", FALSE, FALSE, None)
TsExpress == DetectedStack("typescript", "express", FALSE, FALSE, "api")
TsReact == DetectedStack("typescript", "react", FALSE, FALSE, "web")
JavaKtorTests == DetectedStack("java", "ktor", FALSE, TRUE, "svc")
UnknownNone == DetectedStack("unknown", "none", FALSE, FALSE, None)

StackSamples ==
    {NodeReact, JavaSpring, TsExpress, TsReact, JavaKtorTests, UnknownNone}

AllStacks ==
    {DetectedStack(l, f, d, t, None) :
        l \in Language, f \in Framework, d \in BOOLEAN, t \in BOOLEAN}

SeqsUpTo(S, n) == UNION {[1..m -> S] : m \in 0..n}

RootSamples == {<<"work", "demo">>, <<>>}

DirDemo ==
    [EmptyDir EXCEPT !.package_json = Fields("demo-svc", "2.3.1"),
                     !.pom_xml = Fields("demo-app", Absent),
                     !.setup_py = Fields("demo-ml", "1.4.0")]

DirNullVersion ==
    [EmptyDir EXCEPT !.package_json = Fields("demo-svc", None),
                     !.pom_xml = Fields(None, "3.0.0"),
                     !.build_gradle = Fields("demo-gradle", Absent)]

DirSamples == {DirDemo, DirNullVersion}

\* the manifests live in /work/demo; every other directory has none
FsSamples == {[p \in {<<"work", "demo">>} |-> d] : d \in DirSamples}

\* ------------------------------------------------------------------------
\* The caller: calls resolve, calls it again, reorders two candidates,
\* or the manifests change between two calls
\* ------------------------------------------------------------------------
NoResult == [outcome |-> "none"]
NoPrev == [kind |-> "none"]

Call(swap) ==
    [kind |-> "call", input |-> detected_stacks, root_path |-> root_path,
     fs |-> fs, result |-> result, swap |-> swap]

swap_items(list, i, j) ==
    [k \in 1..Len(list) |->
        IF k = i THEN list[j] ELSE IF k = j THEN list[i] ELSE list[k]]

Init ==
    /\ detected_stacks \in SeqsUpTo(StackSamples, MaxLen)
    /\ root_path \in RootSamples
    /\ fs \in FsSamples
    /\ result = NoResult
    /\ prev = NoPrev
    /\ pc = "idle"
    /\ base_priority = 0
    /\ detectors = <<>>
    /\ cli = [command |-> "none"]

Resolve ==
    /\ pc = "idle"
    /\ result = NoResult
    /\ result' = resolve(detected_stacks, root_path)
    /\ UNCHANGED <<detected_stacks, root_path, fs, prev, pc, base_priority>>
    /\ UNCHANGED <<detectors, cli>>

ResolveAgain ==
    /\ pc = "idle"
    /\ result # NoResult
    /\ prev' = Call(<<>>)
    /\ result' = resolve(detected_stacks, root_path)
    /\ UNCHANGED <<detected_stacks, root_path, fs, pc, base_priority>>
    /\ UNCHANGED <<detectors, cli>>

Reorder ==
    /\ pc = "idle"
    /\ result # NoResult
    /\ \E i \in 1..Len(detected_stacks), j \in 1..Len(detected_stacks) :
          /\ i < j
          /\ prev' = Call(<<i, j>>)
          /\ detected_stacks' = swap_items(detected_stacks, i, j)
    /\ result' = NoResult
    /\ UNCHANGED <<root_path, fs, pc, base_priority>>
    /\ UNCHANGED <<detectors, cli>>

EditManifest ==
    /\ pc = "idle"
    /\ result # NoResult
    /\ \E files \in FsSamples :
          /\ files # fs
          /\ fs' = files
    /\ prev' = Call(<<>>)
    /\ result' = NoResult
    /\ UNCHANGED <<detected_stacks, root_path, pc, base_priority>>
    /\ UNCHANGED <<detectors, cli>>

Next == Resolve \/ ResolveAgain \/ Reorder \/ EditManifest

Spec == Init /\ [][Next]_vars

\* ------------------------------------------------------------------------
\* The scoring specification: _get_priority on every DetectedStack, stopped
\* after the framework priority is added (line 152) and at the return
\* ------------------------------------------------------------------------
InitScore ==
    /\ detected_stacks \in {<<s>> : s \in AllStacks}
    /\ root_path = <<>>
    /\ fs = << >>
    /\ result = NoResult
    /\ prev = NoPrev
    /\ pc = "start"
    /\ base_priority = 999
    /\ detectors = <<>>
    /\ cli = [command |-> "none"]

ScoreBase ==
    /\ pc = "start"
    /\ base_priority' = base_with_framework(detected_stacks[1])
    /\ pc' = "adjust"
    /\ UNCHANGED <<detected_stacks, root_path, fs, result, prev>>
    /\ UNCHANGED <<detectors, cli>>

ScoreAdjust ==
    /\ pc = "adjust"
    /\ base_priority' = adjust(detected_stacks[1], base_priority)
    /\ pc' = "return"
    /\ UNCHANGED <<detected_stacks, root_path, fs, result, prev>>
    /\ UNCHANGED <<detectors, cli>>

NextScore == ScoreBase \/ ScoreAdjust

SpecScore == InitScore /\ [][NextScore]_vars

\* ------------------------------------------------------------------------
\* Properties
\* ------------------------------------------------------------------------
Called == result # NoResult

\* the score of the candidate at position i of the caller's list
score(i) == _get_priority(detected_stacks[i])

Positions == 1..Len(detected_stacks)

MinScore == CHOOSE v \in {score(i) : i \in Positions} :
                \A i \in Positions : v <= score(i)

\* C1: resolve on an empty candidate list ends in the error, before any
\* priority is computed and before any metadata is extracted, and returns no
\* ProjectContext (so no stack, default or other, comes out of it).
C1_EmptyListIsAnError ==
    (Called /\ detected_stacks = <<>>) =>
        /\ result.outcome = "ValueError"
        /\ result.keys = <<>>
        /\ result.extracted = <<>>
        /\ result.winner = 0
        /\ result.context = NoContext

C1_Witness ==
    Called /\ detected_stacks = <<>> /\ result.outcome = "ValueError"

\* C2: the stack resolve returns for a non-empty list is the leftmost minimum:
\* no candidate scores lower, and every candidate before it in the input
\* scores strictly higher.
C2_WinnerIsLeftmostMinimum ==
    (Called /\ detected_stacks # <<>>) =>
        /\ result.winner \in Positions
        /\ \A i \in Positions : score(result.winner) <= score(i)
        /\ \A i \in Positions : i < result.winner => score(i) > score(result.winner)
        /\ result.outcome = "ok" =>
               result.context.stack = detected_stacks[result.winner]

C2_Witness ==
    /\ result.outcome = "ok"
    /\ Len(detected_stacks) = 3
    /\ result.winner = 2
    /\ score(3) = score(2)
    /\ detected_stacks[3] # detected_stacks[2]

\* C3: is_monorepo is (number of candidates > 1); a monorepo's
\* detected_projects is the input list itself, in input order with its
\* duplicates; a single candidate x gives is_monorepo = False,
\* detected_projects = [] and stack = x.
C3_MonorepoAndDetectedProjects ==
    result.outcome = "ok" =>
        /\ result.context.is_monorepo = (Len(detected_stacks) > 1)
        /\ result.context.is_monorepo =>
               result.context.detected_projects = detected_stacks
        /\ Len(detected_stacks) = 1 =>
               /\ result.context.is_monorepo = FALSE
               /\ result.context.detected_projects = <<>>
               /\ result.context.stack = detected_stacks[1]

C3_Witness ==
    /\ result.outcome = "ok"
    /\ Len(detected_stacks) = 3
    /\ result.context.is_monorepo
    /\ detected_stacks[1] = detected_stacks[3]
    /\ score(1) > score(2)

\* The tables as the claims state them
C4_language_rank(language) ==
    CASE language = "java"       -> 0
      [] language = "kotlin"     -> 1
      [] language = "dotnet"     -> 2
      [] language = "go"         -> 3
      [] language = "python"     -> 4
      [] language = "php"        -> 5
      [] language = "typescript" -> 6
      [] language = "nodejs"     -> 7

C4_language_base(language) ==
    IF language = "unknown" THEN 999 ELSE C4_language_rank(language) * 100

C4_framework_rank(framework) ==
    CASE framework = "spring_boot" -> 0  [] framework = "quarkus"     -> 1
      [] framework = "micronaut"   -> 2  [] framework = "ktor"        -> 3
      [] framework = "django"      -> 0  [] framework = "fastapi"     -> 1
      [] framework = "flask"       -> 2  [] framework = "aiohttp"     -> 3
      [] framework = "nestjs"      -> 0  [] framework = "express"     -> 1
      [] framework = "nextjs"      -> 10 [] framework = "nuxt"        -> 11
      [] framework = "angular"     -> 20 [] framework = "vue"         -> 21
      [] framework = "react"       -> 22
      [] framework = "gin"         -> 0  [] framework = "echo"        -> 1
      [] framework = "fiber"       -> 2
      [] framework = "laravel"     -> 0  [] framework = "symfony"     -> 1
      [] framework = "yii"         -> 2  [] framework = "codeigniter" -> 3
      [] framework = "aspnet_core" -> 0  [] framework = "blazor"      -> 1
      [] OTHER -> 50

C5_adjustments(stack) ==
    (IF stack.language = "typescript" /\ stack.framework \in {"nestjs", "express"}
     THEN -50 ELSE 0)
    + (IF stack.language = "nodejs" /\ stack.framework \in {"react", "vue", "angular"}
       THEN 200 ELSE 0)
    + (IF stack.language = "kotlin" /\ stack.framework = "ktor" THEN -10 ELSE 0)
    + (IF stack.has_dockerfile THEN -5 ELSE 0)
    + (IF stack.has_tests THEN -3 ELSE 0)

\* C5: the final score is base + framework_rank + every applicable
\* adjustment, each applied whatever the others: -50 TypeScript with NestJS or
\* Express, +200 Node.js with React, Vue or Angular, -10 Kotlin with Ktor,
\* -5 has_dockerfile, -3 has_tests.
C5_FinalScore ==
    pc = "return" =>
        base_priority = C4_language_base(detected_stacks[1].language)
                        + C4_framework_rank(detected_stacks[1].framework)
                        + C5_adjustments(detected_stacks[1])

C5_Witness ==
    /\ pc = "return"
    /\ detected_stacks[1].language = "typescript"
    /\ detected_stacks[1].framework = "express"
    /\ detected_stacks[1].has_dockerfile
    /\ detected_stacks[1].has_tests
    /\ base_priority = 543

\* the call before the last one had the same list (by value, in the same
\* order), the same root path and the same manifests
SameInputAsBefore ==
    /\ prev # NoPrev
    /\ Called
    /\ prev.input = detected_stacks
    /\ prev.root_path = root_path
    /\ prev.fs = fs

Swapped == prev # NoPrev /\ Called /\ prev.swap # <<>>

\* where the candidate that was at position p is after the exchange
moved(p) ==
    IF p = prev.swap[1] THEN prev.swap[2]
    ELSE IF p = prev.swap[2] THEN prev.swap[1] ELSE p

SameWinner == result.winner = moved(prev.result.winner)

\* one of the exchanged candidates has the lowest score, and so has a third
ThirdCandidateTiesLowest ==
    /\ MinScore \in {score(prev.swap[1]), score(prev.swap[2])}
    /\ \E m \in Positions \ {prev.swap[1], prev.swap[2]} : score(m) = MinScore

\* C7 as stated: exchanging two candidates whose scores differ never changes
\* the winner, whatever the other candidates are (compared by value, so two
\* equal candidates count as the same winner).
C7_AsStated ==
    (Swapped /\ score(prev.swap[1]) # score(prev.swap[2])) =>
        detected_stacks[result.winner] = prev.input[prev.result.winner]

\* C7: exchanging two candidates whose scores differ never changes the score
\* of the winner, and never changes the winner unless one of the two has the
\* lowest score of the list and a third candidate has that score too.
C7_SwapOfDifferentScores ==
    (Swapped /\ score(prev.swap[1]) # score(prev.swap[2])) =>
        /\ score(result.winner) = prev.result.keys[prev.result.winner]
        /\ ~ThirdCandidateTiesLowest => SameWinner

C7_Witness ==
    /\ Swapped
    /\ Len(detected_stacks) = 3
    /\ score(prev.swap[1]) # score(prev.swap[2])
    /\ ~ThirdCandidateTiesLowest
    /\ prev.result.winner = prev.swap[2]
    /\ result.winner = prev.swap[1]
    /\ \E m \in Positions : score(m) > score(result.winner) /\ m > result.winner

\* the exchanged candidates have the lowest score and no candidate of that
\* score stands before both
SwappedLeadTheLowest ==
    /\ score(prev.swap[1]) = MinScore
    /\ \A m \in Positions : m < prev.swap[1] => score(m) # MinScore

\* C8 as stated: exchanging two candidates whose scores are equal makes the
\* one of them that now comes first the winner (compared by value).
C8_AsStated ==
    (Swapped /\ score(prev.swap[1]) = score(prev.swap[2])) =>
        detected_stacks[result.winner] = detected_stacks[prev.swap[1]]

\* C8: exchanging two candidates whose scores are equal makes the one of them
\* that now comes first the winner when their score is the lowest of the list
\* and no other candidate of that score stands before both; otherwise the
\* winner is the same candidate as before.
C8_SwapOfEqualScores ==
    (Swapped /\ score(prev.swap[1]) = score(prev.swap[2])) =>
        IF SwappedLeadTheLowest
        THEN /\ result.winner = prev.swap[1]
             /\ prev.result.winner = prev.swap[1]
        ELSE SameWinner

C8_Witness ==
    /\ Swapped
    /\ Len(detected_stacks) = 3
    /\ score(prev.swap[1]) = score(prev.swap[2])
    /\ detected_stacks[prev.swap[1]] # detected_stacks[prev.swap[2]]
    /\ SwappedLeadTheLowest
    /\ result.winner = prev.swap[1]
    /\ prev.swap[1] > 1

no_flags(stack, language, framework) ==
    /\ stack.language = language
    /\ stack.framework = framework
    /\ ~stack.has_dockerfile
    /\ ~stack.has_tests

\* C9: Node.js + React without flags scores 922, Java + Spring Boot without
\* flags scores 0, and of exactly these two, in either order, resolve selects
\* the Java candidate.
C9_JavaSpringBeatsNodeReact ==
    \A n \in Positions, j \in Positions :
        ( /\ Called
          /\ Len(detected_stacks) = 2
          /\ no_flags(detected_stacks[n], "nodejs", "react")
          /\ no_flags(detected_stacks[j], "java", "spring_boot") ) =>
            /\ result.keys[n] = 922
            /\ result.keys[j] = 0
            /\ result.winner = j
            /\ result.outcome = "ok" =>
                   no_flags(result.context.stack, "java", "spring_boot")

C9_Witness ==
    /\ result.outcome = "ok"
    /\ Len(detected_stacks) = 2
    /\ no_flags(detected_stacks[1], "nodejs", "react")
    /\ no_flags(detected_stacks[2], "java", "spring_boot")
    /\ result.winner = 2

\* C10: TypeScript + Express without flags scores 551, TypeScript + React
\* without flags scores 622, and of exactly these two, in either order,
\* resolve selects the Express candidate.
C10_ExpressBeatsReact ==
    \A e \in Positions, r \in Positions :
        ( /\ Called
          /\ Len(detected_stacks) = 2
          /\ no_flags(detected_stacks[e], "typescript", "express")
          /\ no_flags(detected_stacks[r], "typescript", "react") ) =>
            /\ result.keys[e] = 551
            /\ result.keys[r] = 622
            /\ result.winner = e
            /\ result.outcome = "ok" =>
                   no_flags(result.context.stack, "typescript", "express")

C10_Witness ==
    /\ result.outcome = "ok"
    /\ Len(detected_stacks) = 2
    /\ no_flags(detected_stacks[1], "typescript", "react")
    /\ no_flags(detected_stacks[2], "typescript", "express")
    /\ result.winner = 2

\* ------------------------------------------------------------------------
\* resolver.py: Resolver.resolve_all
\* ------------------------------------------------------------------------
\* Faulty variant: every project is given the repository root
project_path_root(path, stack) == path

\* line 122: os.path.join(root_path, stack.project_root) if stack.project_root
\* else root_path
project_path(path, stack) ==
    IF truthy(stack.project_root) THEN Append(path, stack.project_root) ELSE path

\* Faulty variant: a project in a sub-directory is flagged as a monorepo
build_context_flagged(stack, path) ==
    LET metadata == _extract_metadata(stack, path) IN
    [valid |-> metadata.valid,
     context |-> ProjectContext(metadata, stack, path,
                                truthy(stack.project_root), <<>>)]

\* lines 123-131: the context of one stack, or the ValidationError of its
\* ProjectMetadata
build_context(stack, path) ==
    LET metadata == _extract_metadata(stack, path) IN
    [valid |-> metadata.valid,
     context |-> ProjectContext(metadata, stack, path, FALSE, <<>>)]

\* Faulty variant: the contexts are sorted by the language of their stack only
context_keys_by_language(stacks) ==
    [i \in 1..Len(stacks) |-> language_base(stacks[i])]

\* line 134: key=lambda ctx: self._get_priority(ctx.stack), for the contexts
\* in the order they were appended
context_keys(stacks) == priority_keys(stacks)

\* lines 120-136, for a list that is not empty
resolve_all_stacks(stacks, path) ==
    LET built == [i \in 1..Len(stacks) |->
                     build_context(stacks[i], project_path(path, stacks[i]))]
        probe(i) == [position |-> i, path |-> project_path(path, stacks[i])]
        failed == {i \in 1..Len(stacks) : ~built[i].valid}
    IN  IF failed # {}
        THEN LET first == CHOOSE i \in failed : \A j \in failed : i <= j
             IN  [outcome |-> "ValidationError", keys |-> <<>>,
                  extracted |-> [i \in 1..first |-> probe(i)],
                  order |-> <<>>, contexts |-> <<>>]
        ELSE LET keys == context_keys(stacks)
                 order == sorted(keys)
             IN  [outcome |-> "ok", keys |-> keys,
                  extracted |-> [i \in 1..Len(stacks) |-> probe(i)],
                  order |-> order,
                  contexts |-> [k \in 1..Len(stacks) |->
                                   built[order[k]].context]]

\* Faulty variant: an empty list gives an empty list of contexts
resolve_all_lenient(stacks, path) ==
    IF stacks = <<>>
    THEN [outcome |-> "ok", keys |-> <<>>, extracted |-> <<>>,
          order |-> <<>>, contexts |-> <<>>]
    ELSE resolve_all_stacks(stacks, path)

\* The outcome of one call: how it ended, the keys list.sort computed, the
\* pairs (list position, path) whose metadata was extracted, the input
\* positions of the returned contexts and the contexts.
resolve_all(stacks, path) ==
    IF stacks = <<>>
    THEN [outcome |-> "ValueError", keys |-> <<>>, extracted |-> <<>>,
          order |-> <<>>, contexts |-> <<>>]
    ELSE resolve_all_stacks(stacks, path)

\* The inputs of resolve_all: the samples, and a second project at the
\* repository root whose project_root is the empty string
TsExpressHere == DetectedStack("typescript", "express", FALSE, FALSE, "")

ProjectSamples == StackSamples \cup {TsExpressHere}

DirApi == [EmptyDir EXCEPT !.package_json = Fields("api-svc", "1.2.0")]
DirWeb == [EmptyDir EXCEPT !.package_json = Fields("web-ui", Absent)]
DirWebNull == [EmptyDir EXCEPT !.package_json = Fields("web-ui", None)]
DirSvc == [EmptyDir EXCEPT !.pom_xml = Fields("svc-core", "0.9.0")]

Monorepo(web) ==
    [p \in {<<"work", "demo">>, <<"work", "demo", "api">>,
            <<"work", "demo", "web">>, <<"work", "demo", "svc">>} |->
        CASE p = <<"work", "demo">> -> DirDemo
          [] p = <<"work", "demo", "api">> -> DirApi
          [] p = <<"work", "demo", "web">> -> web
          [] p = <<"work", "demo", "svc">> -> DirSvc]

MonorepoSamples == {Monorepo(DirWeb), Monorepo(DirWebNull)}

InitAll ==
    /\ detected_stacks \in SeqsUpTo(ProjectSamples, MaxLen)
    /\ root_path \in RootSamples
    /\ fs \in MonorepoSamples
    /\ result = NoResult
    /\ prev = NoPrev
    /\ pc = "resolve_all"
    /\ base_priority = 0
    /\ detectors = <<>>
    /\ cli = [command |-> "none"]

ResolveAll ==
    /\ pc = "resolve_all"
    /\ result = NoResult
    /\ result' = resolve_all(detected_stacks, root_path)
    /\ UNCHANGED <<detected_stacks, root_path, fs, prev, pc, base_priority>>
    /\ UNCHANGED <<detectors, cli>>

NextAll == ResolveAll

SpecAll == InitAll /\ [][NextAll]_vars

\* how often a stack occurs in a list of stacks
occurrences(stack, list) == Cardinality({i \in 1..Len(list) : list[i] = stack})

returned_stacks == [k \in 1..Len(result.contexts) |-> result.contexts[k].stack]

\* C11: resolve_all on N >= 1 candidates returns N contexts, whose stacks are
\* the input candidates, each as often as it occurs in the input, and every
\* context has is_monorepo = False and no detected_projects, also for N > 1.
C11_OneContextPerCandidate ==
    (pc = "resolve_all" /\ result.outcome = "ok") =>
        /\ Len(result.contexts) = Len(detected_stacks)
        /\ \A stack \in ProjectSamples :
               occurrences(stack, returned_stacks)
                   = occurrences(stack, detected_stacks)
        /\ \A k \in 1..Len(result.contexts) :
               /\ result.contexts[k].is_monorepo = FALSE
               /\ result.contexts[k].detected_projects = <<>>

C11_Witness ==
    /\ pc = "resolve_all"
    /\ result.outcome = "ok"
    /\ Len(detected_stacks) = 3
    /\ detected_stacks[1] = detected_stacks[3]
    /\ truthy(detected_stacks[1].project_root)
    /\ detected_stacks[2] # detected_stacks[1]

\* C12: the contexts resolve_all returns are in non-decreasing order of the
\* score of their stacks, and contexts of equal score stand in the order of
\* their candidates in the input.
C12_SortedAndStable ==
    (pc = "resolve_all" /\ result.outcome = "ok") =>
        \A a \in 1..Len(result.contexts), b \in 1..Len(result.contexts) :
            a < b =>
                /\ result.contexts[a].stack = detected_stacks[result.order[a]]
                /\ result.contexts[b].stack = detected_stacks[result.order[b]]
                /\ _get_priority(result.contexts[a].stack)
                       <= _get_priority(result.contexts[b].stack)
                /\ _get_priority(result.contexts[a].stack)
                       = _get_priority(result.contexts[b].stack)
                   => result.order[a] < result.order[b]

C12_Witness ==
    /\ pc = "resolve_all"
    /\ result.outcome = "ok"
    /\ Len(detected_stacks) = 3
    /\ score(1) > score(2)
    /\ score(2) = score(3)
    /\ detected_stacks[2] # detected_stacks[3]
    /\ result.order = <<2, 3, 1>>

\* the path the claim gives the project of a candidate
C13_path(stack) ==
    IF stack.project_root = None \/ stack.project_root = ""
    THEN root_path
    ELSE root_path \o <<stack.project_root>>

\* C13: the context of a candidate has the root path joined with its
\* project_root (the root path itself when project_root is None or empty),
\* its metadata is the one extracted at that path, and the sort keeps stack,
\* root_path and metadata together.
C13_PerProjectPath ==
    (pc = "resolve_all" /\ result.outcome = "ok") =>
        /\ \A k \in 1..Len(result.contexts) :
              LET ctx == result.contexts[k]
                  stack == detected_stacks[result.order[k]]
                  metadata == _extract_metadata(stack, C13_path(stack))
              IN  /\ ctx.stack = stack
                  /\ ctx.root_path = C13_path(stack)
                  /\ ctx.metadata.name = metadata.name
                  /\ ctx.metadata.version = metadata.version
        /\ \A i \in 1..Len(detected_stacks) :
              result.extracted[i] =
                  [position |-> i, path |-> C13_path(detected_stacks[i])]

C13_Witness ==
    /\ pc = "resolve_all"
    /\ result.outcome = "ok"
    /\ root_path = <<"work", "demo">>
    /\ Len(detected_stacks) = 3
    /\ detected_stacks[1].project_root = "web"
    /\ detected_stacks[2].project_root = ""
    /\ detected_stacks[3].project_root = "api"
    /\ result.order = <<2, 3, 1>>
    /\ result.contexts[1].metadata.name = "demo-svc"
    /\ result.contexts[2].metadata.name = "api-svc"
    /\ result.contexts[3].metadata.name = "web-ui"

\* ------------------------------------------------------------------------
\* resolver.py: Resolver._extract_metadata on one stack and one directory,
\* over the states of the manifests of each ecosystem
\* ------------------------------------------------------------------------
\* package.json: missing, unparsable, a JSON value that is not an object, or
\* an object whose name and version are absent, null, "", a list or a string
PackageJsons ==
    {Missing, Malformed, NonDict}
        \cup {Fields(n, v) : n \in {Absent, None, "", NonStr, "demo-svc"},
                             v \in {Absent, None, "", NonStr, "2.3.1"}}

\* pyproject.toml (TOML has no null) and setup.py (the regexes match a
\* non-empty string or nothing)
PoetrySections ==
    {NoSection} \cup {Section(n, v) : n \in {Absent, "", NonStr, "demo-poetry"},
                                      v \in {Absent, "1.4.0"}}
ProjectSections ==
    {NoSection} \cup {Section(n, v) : n \in {Absent, "", NonStr, "demo-ml"},
                                      v \in {Absent, "1.5.0"}}
PyProjects ==
    {Missing, Malformed}
        \cup {PyProject(a, b) : a \in PoetrySections, b \in ProjectSections}
SetupPys ==
    {Missing, Malformed, Fields(Absent, Absent), Fields("demo-setup", "1.0.0"),
     Fields("demo-setup", Absent)}

\* pom.xml (an element without text has text None), build.gradle and
\* settings.gradle
PomXmls ==
    {Missing, Malformed}
        \cup {Fields(n, v) : n \in {Absent, None, "demo-app"},
                             v \in {Absent, None, "3.0.0"}}
BuildGradles ==
    {Missing, Malformed, Fields(Absent, Absent), Fields("demo-gradle", "4.0.0"),
     Fields(Absent, "4.0.0")}
SettingsGradles ==
    {Missing, Fields(Absent, Absent), Fields("demo-settings", Absent)}

\* go.mod: the name is the last segment of the module path
GoMods ==
    {Missing, Malformed, Fields(Absent, Absent), Fields("", Absent),
     Fields("demo-go", Absent)}

\* the *.csproj files of a directory, in glob order
CsprojFile(file, stem, kind, version) ==
    [file |-> file, stem |-> stem, kind |-> kind, version |-> version]
Csprojs ==
    {<<>>}
        \cup {<<CsprojFile("App.csproj", "App", "ok", v)>> :
                 v \in {Absent, None, "5.0.0"}}
        \cup {<<CsprojFile("App.csproj", "App", "malformed", Absent)>>}
        \cup {<<CsprojFile("App.csproj", "App", k, Absent),
                CsprojFile("Lib.csproj", "Lib", "ok", "5.1.0")>> :
                 k \in {"ok", "malformed"}}
ConfigFiles == {None, "App.csproj", "Lib.csproj", "Program.cs"}

\* composer.json
ComposerJsons ==
    {Missing, Malformed}
        \cup {ComposerName(n[1], n[2], n[3], v) :
                 n \in {<<Absent, FALSE, "">>, <<None, FALSE, "">>,
                        <<"", FALSE, "">>, <<NonStr, FALSE, "">>,
                        <<"demo-php", FALSE, "demo-php">>,
                        <<"vendor/demo-php", TRUE, "demo-php">>,
                        <<"vendor/", TRUE, "">>},
                 v \in {Absent, None, "", "6.0.0"}}

\* the stacks of a language as extraction sees them (only the config_file
\* of a .NET stack is read)
MetaStacks(language) ==
    LET stack == DetectedStack(language, "none", FALSE, FALSE, None) IN
    IF language = "dotnet"
    THEN {[stack EXCEPT !.config_file = c] : c \in ConfigFiles}
    ELSE {stack}

\* the directories that differ in the manifests of the language's ecosystem
MetaDirs(language) ==
    CASE language \in {"nodejs", "typescript"} ->
             {[EmptyDir EXCEPT !.package_json = f] : f \in PackageJsons}
      [] language = "python" ->
             {[EmptyDir EXCEPT !.pyproject_toml = f, !.setup_py = g] :
                 f \in PyProjects, g \in SetupPys}
      [] language \in {"java", "kotlin"} ->
             {[EmptyDir EXCEPT !.pom_xml = f, !.build_gradle = g,
                               !.settings_gradle = h] :
                 f \in PomXmls, g \in BuildGradles, h \in SettingsGradles}
      [] language = "go" -> {[EmptyDir EXCEPT !.go_mod = f] : f \in GoMods}
      [] language = "dotnet" -> {[EmptyDir EXCEPT !.csproj = f] : f \in Csprojs}
      [] language = "php" ->
             {[EmptyDir EXCEPT !.composer_json = f] : f \in ComposerJsons}
      [] OTHER -> {EmptyDir, DirDemo}

InitMeta ==
    /\ \E language \in Language :
          /\ detected_stacks \in {<<stack>> : stack \in MetaStacks(language)}
          /\ root_path \in RootSamples
          /\ fs \in {[p \in {root_path} |-> d] : d \in MetaDirs(language)}
    /\ result = NoResult
    /\ prev = NoPrev
    /\ pc = "extract_metadata"
    /\ base_priority = 0
    /\ detectors = <<>>
    /\ cli = [command |-> "none"]

\* one call of _extract_metadata: the metadata, or the ValidationError of
\* its construction
ExtractMetadata ==
    /\ pc = "extract_metadata"
    /\ result = NoResult
    /\ LET metadata == _extract_metadata(detected_stacks[1], root_path) IN
       result' = [outcome |-> IF metadata.valid THEN "ok" ELSE "ValidationError",
                  metadata |-> metadata]
    /\ UNCHANGED <<detected_stacks, root_path, fs, prev, pc, base_priority>>
    /\ UNCHANGED <<detectors, cli>>

NextMeta == ExtractMetadata

SpecMeta == InitMeta /\ [][NextMeta]_vars

Extracted == pc = "extract_metadata" /\ result # NoResult

\* C14: metadata extraction never fails: for every language and every state
\* of the manifests, _extract_metadata returns a ProjectMetadata.
C14_ExtractionNeverFails == Extracted => result.outcome = "ok"

\* what a manifest field has to be to yield nothing: no key or no match,
\* null, or the empty string
Nothing == {Absent, None, ""}

\* the name fields of the manifests of the language's ecosystem that parse
manifest_names(dir, language) ==
    CASE language \in {"nodejs", "typescript"} ->
             {dir.package_json.name : k \in {"ok"} \cap {dir.package_json.kind}}
      [] language = "python" ->
             {dir.pyproject_toml.poetry.name :
                 k \in {"ok"} \cap {dir.pyproject_toml.kind}}
             \cup {dir.pyproject_toml.project.name :
                      k \in {"ok"} \cap {dir.pyproject_toml.kind}}
             \cup {dir.setup_py.name : k \in {"ok"} \cap {dir.setup_py.kind}}
      [] language \in {"java", "kotlin"} ->
             {dir.pom_xml.name : k \in {"ok"} \cap {dir.pom_xml.kind}}
             \cup {dir.build_gradle.name : k \in {"ok"} \cap {dir.build_gradle.kind}}
             \cup {dir.settings_gradle.name :
                      k \in {"ok"} \cap {dir.settings_gradle.kind}}
      [] language = "go" ->
             {dir.go_mod.name : k \in {"ok"} \cap {dir.go_mod.kind}}
      [] language = "dotnet" ->
             {dir.csproj[i].stem :
                 i \in {j \in 1..Len(dir.csproj) : dir.csproj[j].kind = "ok"}}
      [] language = "php" ->
             {IF dir.composer_json.has_slash THEN dir.composer_json.last
              ELSE dir.composer_json.name :
                 k \in {"ok"} \cap {dir.composer_json.kind}}
      [] OTHER -> {}

\* C15: the name of the metadata extraction returns is never empty; when no
\* manifest yields a non-empty name it is the last segment of root_path, and
\* when that is empty too it is "auto-generated-<language>".
C15_NameIsNeverEmpty ==
    (Extracted /\ result.outcome = "ok") =>
        LET stack == detected_stacks[1]
            name == result.metadata.name
        IN  /\ name \notin {None, ""}
            /\ manifest_names(fs[root_path], stack.language) \subseteq Nothing =>
                  /\ root_path # <<>> => name = root_path[Len(root_path)]
                  /\ root_path = <<>> =>
                        name = auto_generated(stack.language)

C15_Witness ==
    /\ Extracted
    /\ result.outcome = "ok"
    /\ detected_stacks[1].language = "go"
    /\ fs[root_path].go_mod = Fields("", Absent)
    /\ root_path = <<>>
    /\ result.metadata.name = "auto-generated-go"

\* the version fields of the manifests of the language's ecosystem that parse
manifest_versions(dir, language) ==
    CASE language \in {"nodejs", "typescript"} ->
             {dir.package_json.version : k \in {"ok"} \cap {dir.package_json.kind}}
      [] language = "python" ->
             {dir.pyproject_toml.poetry.version :
                 k \in {"ok"} \cap {dir.pyproject_toml.kind}}
             \cup {dir.pyproject_toml.project.version :
                      k \in {"ok"} \cap {dir.pyproject_toml.kind}}
             \cup {dir.setup_py.version : k \in {"ok"} \cap {dir.setup_py.kind}}
      [] language \in {"java", "kotlin"} ->
             {dir.pom_xml.version : k \in {"ok"} \cap {dir.pom_xml.kind}}
             \cup {dir.build_gradle.version :
                      k \in {"ok"} \cap {dir.build_gradle.kind}}
      [] language = "dotnet" ->
             {dir.csproj[i].version :
                 i \in {j \in 1..Len(dir.csproj) : dir.csproj[j].kind = "ok"}}
      [] language = "php" ->
             {dir.composer_json.version :
                 k \in {"ok"} \cap {dir.composer_json.kind}}
      [] OTHER -> {}

\* C16: the version of the metadata extraction returns is "0.1.0" unless a
\* parsed manifest of the ecosystem supplied a version; an absent, null or
\* empty version leaves "0.1.0".
C16_VersionDefault ==
    (Extracted /\ result.outcome = "ok") =>
        \/ result.metadata.version = "0.1.0"
        \/ result.metadata.version
               \in manifest_versions(fs[root_path], detected_stacks[1].language)
                       \ Nothing

\* the first of the name sources of a Python project that provides a name
first_python_name(dir) ==
    LET pyproject == dir.pyproject_toml
        poetry == IF pyproject.kind = "ok" THEN pyproject.poetry.name ELSE Absent
        project == IF pyproject.kind = "ok" THEN pyproject.project.name ELSE Absent
        setup == IF dir.setup_py.kind = "ok" THEN dir.setup_py.name ELSE Absent
        provides(v) == v \notin Nothing \cup {NonStr}
    IN  IF provides(poetry) THEN poetry
        ELSE IF provides(project) THEN project
        ELSE IF provides(setup) THEN setup
        ELSE Absent

\* C17: for a Python stack the name is taken from [tool.poetry], else from
\* [project], else from setup.py: the first of the three that provides one.
C17_PythonNameOrder ==
    (Extracted /\ result.outcome = "ok"
         /\ detected_stacks[1].language = "python"
         /\ first_python_name(fs[root_path]) # Absent) =>
        result.metadata.name = first_python_name(fs[root_path])

\* ------------------------------------------------------------------------
\* analyzer.py and interfaces.py: Analyzer.analyze in recursive mode.
\* A directory is the sequence of names from the repository root; a detector
\* is what its detect does in each directory.
\* ------------------------------------------------------------------------
MAX_DEPTH == 5

SKIP_DIRS ==
    {"node_modules", ".git", ".svn", ".hg", "__pycache__", ".pytest_cache",
     "venv", ".venv", "env", ".env", "virtualenv", "vendor", "bower_components",
     "target", "build", "dist", "out", "bin", "obj", ".idea", ".vscode",
     ".gradle", ".m2", "coverage", ".nyc_output", "htmlcov", ".tox", ".nox",
     ".eggs"}

\* the names of the repository that start with a dot, and those that end
\* with .egg-info
HiddenNames == {".git", ".github", ".gitlab"}
EggInfoNames == {"demo.egg-info"}

_should_search_dir(name) ==
    IF name \in HiddenNames /\ name \notin {".github", ".gitlab"} THEN FALSE
    ELSE IF name \in SKIP_DIRS THEN FALSE
    ELSE IF name \in EggInfoNames THEN FALSE
    ELSE TRUE

\* the repository: api/ (with api/core/), web/ and node_modules/
Dirs == {<<>>, <<"api">>, <<"api", "core">>, <<"web">>, <<"node_modules">>}

Children(dir) ==
    {c \in Dirs : Len(c) = Len(dir) + 1 /\ SubSeq(c, 1, Len(dir)) = dir}

\* iterdir(): the sub-directories of each directory in some order
Orderings(S) ==
    {o \in [1..Cardinality(S) -> S] : \A c \in S : \E i \in DOMAIN o : o[i] = c}

\* (only the root of this repository has more than one sub-directory)
Listings ==
    {[d \in Dirs |-> IF d = <<>> THEN o
                     ELSE CHOOSE only \in Orderings(Children(d)) : TRUE] :
        o \in Orderings(Children(<<>>))}

\* str(current_path.relative_to(repo_root))
relative_to(dir) ==
    CASE dir = <<>> -> "."
      [] dir = <<"api">> -> "api"
      [] dir = <<"api", "core">> -> "api/core"
      [] dir = <<"web">> -> "web"
      [] dir = <<"node_modules">> -> "node_modules"

\* what detect(dir) does: returns None, returns a new DetectedStack (its
\* project_root still None) or raises
NotFound == [kind |-> "none"]
Raises(exc) == [kind |-> "raise", exc |-> exc]
Found(language, framework, multi) ==
    [kind |-> "stack",
     stack |-> DetectedStack(language, framework, FALSE, FALSE, None)
                   @@ [is_multi_module |-> multi]]

detect(detector, dir) == detector[dir]

\* Faulty variant: the search goes on below a multi-module project
no_recursion_stop(found) == FALSE

\* interfaces.py, lines 60-61: if stack.is_multi_module: return
is_multi_module_stop(found) ==
    found.kind = "stack" /\ found.stack.is_multi_module

\* interfaces.py, lines 44-69.  The value is the stacks appended to results
\* and the exception that leaves the call, "none" when it returns.
RECURSIVE _search_recursive(_, _, _, _)
RECURSIVE search_items(_, _, _, _)

\* lines 65-67: the loop over iterdir()
search_items(detector, items, listing, depth) ==
    IF items = <<>> THEN [results |-> <<>>, exc |-> "none"]
    ELSE IF ~_should_search_dir(Head(items)[Len(Head(items))])
         THEN search_items(detector, Tail(items), listing, depth)
         ELSE LET first == _search_recursive(detector, Head(items), listing, depth)
              IN  IF first.exc # "none" THEN first
                  ELSE LET rest == search_items(detector, Tail(items), listing, depth)
                       IN  [results |-> first.results \o rest.results,
                            exc |-> rest.exc]

_search_recursive(detector, current_path, listing, depth) ==
    IF depth > MAX_DEPTH THEN [results |-> <<>>, exc |-> "none"]
    ELSE LET found == detect(detector, current_path)
             rel_path == relative_to(current_path)
             here == IF found.kind = "stack"
                     THEN <<[found.stack EXCEPT !.project_root =
                                IF rel_path # "." THEN rel_path ELSE None]>>
                     ELSE <<>>
         IN  IF found.kind = "raise" THEN [results |-> <<>>, exc |-> found.exc]
             ELSE IF is_multi_module_stop(found)
                  THEN [results |-> here, exc |-> "none"]
                  ELSE LET sub == search_items(detector, listing[current_path],
                                               listing, depth + 1)
                       IN  [results |-> here \o sub.results,
                            exc |-> IF sub.exc = "PermissionError"
                                    THEN "none" ELSE sub.exc]

\* lines 35-42
detect_all(detector, listing) == _search_recursive(detector, <<>>, listing, 0)

\* (result.language, result.project_root or "")
dedup_key(stack) ==
    <<stack.language, IF truthy(stack.project_root) THEN stack.project_root ELSE "">>

\* Faulty variant: the stack is appended without looking at seen_paths
add_always(acc, stack) ==
    [all_results |-> Append(acc.all_results, stack),
     seen_paths |-> acc.seen_paths \cup {dedup_key(stack)},
     discovered |-> Append(acc.discovered, stack)]

\* analyzer.py, lines 72-76 and 85-89: append the stack unless its key was
\* seen (discovered records every stack that was offered, in order)
add_unseen(acc, stack) ==
    IF dedup_key(stack) \notin acc.seen_paths
    THEN [all_results |-> Append(acc.all_results, stack),
          seen_paths |-> acc.seen_paths \cup {dedup_key(stack)},
          discovered |-> Append(acc.discovered, stack)]
    ELSE [acc EXCEPT !.discovered = Append(acc.discovered, stack)]

RECURSIVE add_each(_, _)
add_each(acc, stacks) ==
    IF stacks = <<>> THEN acc
    ELSE add_each(add_unseen(acc, Head(stacks)), Tail(stacks))

\* analyzer.py, lines 68-92: the body of the loop for one detector
analyze_detector(acc, detector, listing) ==
    LET root_result == detect(detector, <<>>)
        new_root == root_result.kind = "stack"
                        /\ dedup_key(root_result.stack) \notin acc.seen_paths
        acc1 == IF root_result.kind = "stack"
                THEN add_unseen(acc, root_result.stack)
                ELSE acc
        recursive_results == detect_all(detector, listing)
    IN  IF root_result.kind = "raise" THEN acc
        ELSE IF new_root /\ root_result.stack.is_multi_module THEN acc1
        ELSE IF recursive_results.exc # "none" THEN acc1
        ELSE add_each(acc1, recursive_results.results)

\* The detectors of the runs: a React detector and a second detector of
\* Node.js or TypeScript projects, each given by what it does where;
\* node_modules/ holds a package.json the first one would detect.
ReactDetectors ==
    {[d \in Dirs |->
         CASE d = <<>> -> at_root
           [] d = <<"api">> -> at_api
           [] d = <<"api", "core">> -> at_core
           [] d = <<"web">> -> at_web
           [] OTHER -> Found("nodejs", "react", FALSE)] :
        at_root \in {NotFound, Found("nodejs", "react", FALSE),
                     Found("nodejs", "react", TRUE), Raises("Exception")},
        at_api \in {NotFound, Found("nodejs", "react", FALSE),
                    Found("nodejs", "react", TRUE)},
        at_core \in {NotFound, Found("nodejs", "react", FALSE)},
        at_web \in {NotFound, Found("nodejs", "react", FALSE),
                    Raises("PermissionError")}}

ExpressDetectorsOf(language) ==
    {[d \in Dirs |->
         CASE d = <<>> -> at_root
           [] d = <<"api">> -> at_api
           [] d = <<"web">> -> at_web
           [] OTHER -> NotFound] :
        at_root \in {NotFound, Found(language, "express", FALSE)},
        at_api \in {NotFound, Found(language, "express", FALSE),
                    Raises("Exception")},
        at_web \in {NotFound, Found(language, "express", FALSE)}}

ExpressDetectors == ExpressDetectorsOf("nodejs") \cup ExpressDetectorsOf("typescript")

\* whether the loop body of one detector ends in its except clause
detector_raises(detector, listing) ==
    \/ detect(detector, <<>>).kind = "raise"
    \/ detect_all(detector, listing).exc # "none"

\* Faulty variant: the try encloses the loop, a failing detector ends it
after_detector_abort(i, n, raised) == IF raised THEN n + 1 ELSE i + 1

\* analyzer.py, lines 49-55 and 67-92: try and except are inside the loop
\* over self.detectors, so the next detector follows whatever happened
after_detector(i, n, raised) == i + 1

InitAnalyze ==
    /\ detectors \in {<<a, b>> : a \in ReactDetectors, b \in ExpressDetectors}
    /\ detected_stacks = <<>>
    /\ root_path = <<>>
    /\ fs = << >>
    /\ result = [seen_paths |-> {}, discovered |-> <<>>, detector |-> 1]
    /\ prev = NoPrev
    /\ pc = "analyze"
    /\ base_priority = 0
    /\ cli = [command |-> "none"]

\* one pass of the loop over self.detectors; iterdir() lists the
\* sub-directories in an order of its own
AnalyzeDetector ==
    /\ pc = "analyze"
    /\ result.detector <= Len(detectors)
    /\ \E listing \in Listings :
          LET acc == analyze_detector(
                         [all_results |-> detected_stacks,
                          seen_paths |-> result.seen_paths,
                          discovered |-> result.discovered],
                         detectors[result.detector], listing)
          IN  /\ detected_stacks' = acc.all_results
              /\ result' = [seen_paths |-> acc.seen_paths,
                            discovered |-> acc.discovered,
                            detector |-> after_detector(
                                result.detector, Len(detectors),
                                detector_raises(detectors[result.detector],
                                                listing))]
    /\ UNCHANGED <<root_path, fs, prev, pc, base_priority, detectors, cli>>

\* lines 94-103: return all_results
AnalyzeReturn ==
    /\ pc = "analyze"
    /\ result.detector > Len(detectors)
    /\ pc' = "analyzed"
    /\ UNCHANGED <<detected_stacks, root_path, fs, result, prev, base_priority,
                   detectors, cli>>

NextAnalyze == AnalyzeDetector \/ AnalyzeReturn

SpecAnalyze == InitAnalyze /\ [][NextAnalyze]_vars

\* the position in a list of the first stack with a key
first_with(key, list) ==
    CHOOSE i \in 1..Len(list) :
        /\ dedup_key(list[i]) = key
        /\ \A j \in 1..(i - 1) : dedup_key(list[j]) # key

\* C18: the list analyze builds in recursive mode never has two stacks with
\* the same (language, project_root or "") key; the stack kept for a key is
\* the first one discovered with it, and the kept stacks stand in the order
\* of their discovery.
C18_NoDuplicateKeys ==
    pc \in {"analyze", "analyzed"} =>
        /\ \A i \in 1..Len(detected_stacks), j \in 1..Len(detected_stacks) :
              dedup_key(detected_stacks[i]) = dedup_key(detected_stacks[j])
                  => i = j
        /\ {dedup_key(detected_stacks[i]) : i \in 1..Len(detected_stacks)}
               = {dedup_key(result.discovered[i]) :
                     i \in 1..Len(result.discovered)}
        /\ \A i \in 1..Len(detected_stacks) :
              detected_stacks[i] =
                  result.discovered[first_with(dedup_key(detected_stacks[i]),
                                               result.discovered)]
        /\ \A i \in 1..Len(detected_stacks), j \in 1..Len(detected_stacks) :
              i < j =>
                  first_with(dedup_key(detected_stacks[i]), result.discovered)
                      < first_with(dedup_key(detected_stacks[j]),
                                   result.discovered)

\* the root project is found by the root check and by the search of both
\* detectors, api/ by both detectors with different frameworks
C18_Witness ==
    /\ pc = "analyzed"
    /\ Len(result.discovered) = 7
    /\ Len(detected_stacks) = 3
    /\ dedup_key(detected_stacks[1]) = <<"nodejs", "">>
    /\ detected_stacks[1].framework = "react"
    /\ \E i \in 1..Len(result.discovered) :
          /\ dedup_key(result.discovered[i]) = <<"nodejs", "">>
          /\ result.discovered[i].framework = "express"
    /\ \E i \in 1..Len(detected_stacks) :
          /\ dedup_key(detected_stacks[i]) = <<"nodejs", "api">>
          /\ detected_stacks[i].framework = "react"
    /\ \E i \in 1..Len(result.discovered) :
          /\ dedup_key(result.discovered[i]) = <<"nodejs", "api">>
          /\ result.discovered[i].framework = "express"

\* ------------------------------------------------------------------------
\* cli.py: the generate and deploy commands.  cli.pc is the position in the
\* command, cli.steps the calls made so far, cli.status how the process
\* ended.
\* ------------------------------------------------------------------------
Commands == {"generate", "deploy"}

\* Faulty variant: the command goes on to generate whatever resolve did
after_resolve_continue(outcome) == "generate"

\* try: ... except Exception: a call that raises sends the command to the
\* except clause, otherwise the next statement runs
after_resolve(outcome) == IF outcome = "ok" THEN "generate" ELSE "except"

called(step) == [cli EXCEPT !.steps = Append(@, step)]

InitCli ==
    /\ cli \in {[command |-> c, pc |-> "fetch", steps |-> <<>>,
                 status |-> "running", success |-> TRUE] : c \in Commands}
    /\ detected_stacks = <<>>
    /\ root_path = <<"work", "demo">>
    /\ fs \in FsSamples
    /\ result = NoResult
    /\ prev = NoPrev
    /\ pc = "cli"
    /\ base_priority = 0
    /\ detectors = <<>>

\* project_root = fetcher.fetch(): returns, or raises when the clone fails
CliFetch ==
    /\ pc = "cli" /\ cli.pc = "fetch"
    /\ \E raised \in BOOLEAN :
          cli' = [called("fetch") EXCEPT !.pc = IF raised THEN "except"
                                                ELSE "analyze"]
    /\ UNCHANGED <<detected_stacks, root_path, fs, result, prev, pc,
                   base_priority, detectors>>

\* detected_stacks = analyzer.analyze(project_root): any list, also []
CliAnalyze ==
    /\ pc = "cli" /\ cli.pc = "analyze"
    /\ detected_stacks' \in SeqsUpTo(StackSamples, MaxLen)
    /\ cli' = [called("analyze") EXCEPT !.pc = "resolve"]
    /\ UNCHANGED <<root_path, fs, result, prev, pc, base_priority, detectors>>

\* context = resolver.resolve(detected_stacks, str(project_root))
CliResolve ==
    /\ pc = "cli" /\ cli.pc = "resolve"
    /\ result' = resolve(detected_stacks, root_path)
    /\ cli' = [called("resolve") EXCEPT !.pc = after_resolve(result'.outcome)]
    /\ UNCHANGED <<detected_stacks, root_path, fs, prev, pc, base_priority,
                   detectors>>

\* generator.generate(context, output_dir): returns or raises
CliGenerate ==
    /\ pc = "cli" /\ cli.pc = "generate"
    /\ \E raised \in BOOLEAN :
          cli' = [called("generate") EXCEPT !.pc = IF raised THEN "except"
                                                   ELSE "validate"]
    /\ UNCHANGED <<detected_stacks, root_path, fs, result, prev, pc,
                   base_priority, detectors>>

\* validator.validate(output_dir): deploy only warns when it fails
CliValidate ==
    /\ pc = "cli" /\ cli.pc = "validate"
    /\ \E success \in BOOLEAN :
          cli' = [called("validate") EXCEPT
                     !.success = success,
                     !.pc = IF cli.command = "generate" THEN "report"
                            ELSE "deploy_project"]
    /\ UNCHANGED <<detected_stacks, root_path, fs, result, prev, pc,
                   base_priority, detectors>>

\* generate, lines 88-94: report, then sys.exit(1) if validation failed
CliReport ==
    /\ pc = "cli" /\ cli.pc = "report"
    /\ cli' = [called("report") EXCEPT
                  !.pc = "finally",
                  !.status = IF cli.success THEN "exit 0" ELSE "exit 1"]
    /\ UNCHANGED <<detected_stacks, root_path, fs, result, prev, pc,
                   base_priority, detectors>>

\* deploy, lines 233-263: deploy_project, then sys.exit by its result
CliDeployProject ==
    /\ pc = "cli" /\ cli.pc = "deploy_project"
    /\ \E outcome \in {"success", "errors", "other", "raised"} :
          cli' = [called("deploy_project") EXCEPT
                     !.pc = IF outcome = "raised" THEN "except" ELSE "finally",
                     !.status = CASE outcome = "errors" -> "exit 1"
                                  [] outcome = "raised" -> "running"
                                  [] OTHER -> "exit 0"]
    /\ UNCHANGED <<detected_stacks, root_path, fs, result, prev, pc,
                   base_priority, detectors>>

\* except Exception: logger.exception(...); sys.exit(1)
CliExcept ==
    /\ pc = "cli" /\ cli.pc = "except"
    /\ cli' = [cli EXCEPT !.pc = "finally", !.status = "exit 1"]
    /\ UNCHANGED <<detected_stacks, root_path, fs, result, prev, pc,
                   base_priority, detectors>>

\* finally: fetcher.cleanup(), and the process ends
CliCleanup ==
    /\ pc = "cli" /\ cli.pc = "finally"
    /\ cli' = [called("cleanup") EXCEPT !.pc = "exited"]
    /\ UNCHANGED <<detected_stacks, root_path, fs, result, prev, pc,
                   base_priority, detectors>>

NextCli ==
    \/ CliFetch \/ CliAnalyze \/ CliResolve \/ CliGenerate \/ CliValidate
    \/ CliReport \/ CliDeployProject \/ CliExcept \/ CliCleanup

SpecCli == InitCli /\ [][NextCli]_vars

\* the calls made after the call of resolve
after_resolve_steps ==
    LET at == CHOOSE i \in 1..Len(cli.steps) : cli.steps[i] = "resolve"
    IN  SubSeq(cli.steps, at + 1, Len(cli.steps))

earlier_language(other, stack) ==
    /\ other.language # "unknown"
    /\ stack.language # "unknown"
    /\ C4_language_rank(other.language) < C4_language_rank(stack.language)

php_against_typescript_backend(other, stack) ==
    /\ other.language = "php"
    /\ other.framework = "none"
    /\ stack.language = "typescript"
    /\ stack.framework \in {"nestjs", "express"}

input_sorted_in_place(stacks) ==
    [k \in 1..Len(stacks) |-> stacks[sorted(priority_keys(stacks))[k]]]

\* the caller's list after a call: sorted() at line 89 builds a new list and
\* line 134 sorts the list of contexts, so the argument is left as it was
input_after(stacks) == stacks

InitBoth ==
    /\ detected_stacks \in SeqsUpTo(ProjectSamples, MaxLen)
    /\ root_path \in RootSamples
    /\ fs \in MonorepoSamples
    /\ result = NoResult
    /\ prev = NoPrev
    /\ pc = "both"
    /\ base_priority = 0
    /\ detectors = <<>>
    /\ cli = [command |-> "none"]

BothResolve ==
    /\ pc = "both"
    /\ result = NoResult
    /\ result' = resolve(detected_stacks, root_path)
    /\ detected_stacks' = input_after(detected_stacks)
    /\ UNCHANGED <<root_path, fs, prev, pc, base_priority, detectors, cli>>

BothResolveAll ==
    /\ pc = "both"
    /\ prev = NoPrev
    /\ prev' = [kind |-> "resolve_all", input |-> detected_stacks,
                result |-> resolve_all(detected_stacks, root_path)]
    /\ detected_stacks' = input_after(detected_stacks)
    /\ UNCHANGED <<root_path, fs, result, pc, base_priority, detectors, cli>>

NextBoth == BothResolve \/ BothResolveAll

SpecBoth == InitBoth /\ [][NextBoth]_vars

BothCalled == pc = "both" /\ result # NoResult /\ prev # NoPrev

C28_EmptyListSameError ==
    (BothCalled /\ detected_stacks = <<>>) =>
        /\ result.outcome = "ValueError"
        /\ prev.result.outcome = result.outcome
        /\ prev.result.outcome # "ok"

C28_Witness ==
    /\ BothCalled
    /\ detected_stacks = <<>>
    /\ prev.result.outcome = "ValueError"
    /\ prev.result.contexts = <<>>
    /\ result.context = NoContext

\* C29: for a list that is not empty, the stack of the first context of
\* resolve_all is the candidate resolve returns, the same position of the
\* input list.
C29_SameWinner ==
    (BothCalled /\ result.outcome = "ok" /\ prev.result.outcome = "ok") =>
        /\ prev.result.order[1] = result.winner
        /\ prev.result.contexts[1].stack = result.context.stack
        /\ prev.result.contexts[1].stack = detected_stacks[result.winner]

\* three candidates, the last two tie on the lowest score and differ
C29_Witness ==
    /\ BothCalled
    /\ result.outcome = "ok"
    /\ prev.result.outcome = "ok"
    /\ Len(detected_stacks) = 3
    /\ score(1) > score(2)
    /\ score(2) = score(3)
    /\ detected_stacks[2] # detected_stacks[3]
    /\ result.winner = 2
    /\ prev.result.order[1] = 2

\* ------------------------------------------------------------------------
\* test_e2e.py, cli.py: analyze followed by resolve on the list it returned.
\* prev is the outcome of resolve.
\* ------------------------------------------------------------------------
\* analyzer.py, lines 64-103: the loop over the detectors from the i-th on,
\* each search with the iterdir() orders it meets
RECURSIVE analyze_from(_, _, _, _)
analyze_from(acc, dets, listings, i) ==
    IF i > Len(dets) THEN acc
    ELSE analyze_from(analyze_detector(acc, dets[i], listings[i]),
                      dets, listings, i + 1)

_analyze_recursive(dets, listings) ==
    analyze_from([all_results |-> <<>>, seen_paths |-> {}, discovered |-> <<>>],
                 dets, listings, 1).all_results

\* test_e2e.py, lines 183-187: the stack of the context of one run, or the
\* exception that ends it
primary_stack(dets, listings) ==
    LET stacks == _analyze_recursive(dets, listings)
        resolved == resolve(stacks, root_path)
    IN  IF resolved.outcome = "ok" THEN resolved.context.stack
        ELSE [error |-> resolved.outcome]

\* context = resolver.resolve(detected_stacks, str(project_root))
PipelineResolve ==
    /\ pc = "analyzed"
    /\ pc' = "resolved"
    /\ prev' = [kind |-> "resolve", input |-> detected_stacks,
                result |-> resolve(detected_stacks, root_path)]
    /\ UNCHANGED <<detected_stacks, root_path, fs, result, base_priority,
                   detectors, cli>>

NextPipeline == AnalyzeDetector \/ AnalyzeReturn \/ PipelineResolve

SpecPipeline == InitAnalyze /\ [][NextPipeline]_vars

\* C22: analyze followed by resolve gives the same primary stack on every
\* run over the same repository, in whatever order iterdir() lists the
\* sub-directories.
C22_SamePrimaryStack ==
    (pc = "resolved" /\ prev.result.outcome = "ok") =>
        \A listings \in [1..Len(detectors) -> Listings] :
            primary_stack(detectors, listings) = prev.result.context.stack

\* the directory a stack of the analysis was found in
dir_of(stack) ==
    CHOOSE d \in Dirs :
        stack.project_root = (IF relative_to(d) = "." THEN None ELSE relative_to(d))

\* the directories strictly above a directory
above(dir) ==
    {a \in Dirs : Len(a) < Len(dir) /\ SubSeq(dir, 1, Len(a)) = a}

\* the detector a stack of the analysis comes from: the first one reports
\* React projects, the second one Express projects
detector_of(stack) == IF stack.framework = "react" THEN 1 ELSE 2

\* C23: the analysis has no stack of a detector in a directory strictly
\* inside one that the same detector reports as a multi-module project; the
\* detector is not even asked there.
C23_NoSearchBelowMultiModule ==
    pc \in {"analyze", "analyzed"} =>
        \A i \in 1..Len(result.discovered) :
            LET stack == result.discovered[i] IN
            \A a \in above(dir_of(stack)) :
                LET found == detectors[detector_of(stack)][a] IN
                ~(found.kind = "stack" /\ found.stack.is_multi_module)

\* the first detector reports api/ as multi-module and would report
\* api/core/; web/ is found, api/core/ is not
C23_Witness ==
    /\ pc = "analyzed"
    /\ detectors[1][<<>>] = NotFound
    /\ detectors[1][<<"api">>] = Found("nodejs", "react", TRUE)
    /\ detectors[1][<<"api", "core">>] = Found("nodejs", "react", FALSE)
    /\ detectors[1][<<"web">>] = Found("nodejs", "react", FALSE)
    /\ \E i \in 1..Len(detected_stacks) :
          /\ detected_stacks[i].project_root = "api"
          /\ detected_stacks[i].is_multi_module
    /\ \E i \in 1..Len(detected_stacks) : detected_stacks[i].project_root = "web"
    /\ \A i \in 1..Len(detected_stacks) :
          detected_stacks[i].project_root # "api/core"

\* ------------------------------------------------------------------------
\* platform_manager.py: PlatformManager.deploy_project.  cli.pc is the
\* position in the method, cli.steps the calls made, cli.raised the text of
\* the exception a call raised, result the dict the method returns.
\* ------------------------------------------------------------------------
\* Faulty variant: a failing step is ignored and the next one runs
after_step_ignore(raised, next) == next

\* lines 224 and 268: a step that raises sends deploy_project to its except
\* clause, otherwise the next statement runs
after_step(raised, next) == IF raised # None THEN "except" ELSE next

\* what a step does: it returns, or raises an exception with this text
StepOutcomes(step) ==
    CASE step = "create_project" ->
             {None, "Failed to create project", "Project demo not found"}
      [] step = "push_code" -> {None, "copytree failed"}
      [] OTHER -> {None, "ConnectionError"}

step_done(step, raised, next) ==
    [cli EXCEPT !.steps = Append(@, step),
                !.raised = raised,
                !.pc = after_step(raised, next)]

InitDeploy ==
    /\ cli \in {[command |-> "deploy_project", pc |-> "create_project",
                 steps |-> <<>>, raised |-> None, wait_for_pipeline |-> w] :
                   w \in BOOLEAN}
    /\ result = [gitlab_project |-> None, sonarqube_project |-> FALSE,
                 pipeline_status |-> None, pipeline_url |-> None,
                 errors |-> <<>>]
    /\ detected_stacks = <<>>
    /\ root_path = <<>>
    /\ fs = << >>
    /\ prev = NoPrev
    /\ pc = "deploy_project"
    /\ base_priority = 0
    /\ detectors = <<>>

\* lines 229-231: create_project returns the project (new or existing) or
\* raises; a project without 'id' is stored before line 231 raises KeyError
DeployCreateProject ==
    /\ pc = "deploy_project" /\ cli.pc = "create_project"
    /\ \/ \E raised \in StepOutcomes("create_project") \ {None} :
             /\ cli' = step_done("create_project", raised, "setup_variables")
             /\ UNCHANGED result
       \/ \E project \in {[id |-> 7, name |-> "demo"], [name |-> "demo"]} :
             /\ result' = [result EXCEPT !.gitlab_project = project]
             /\ cli' = step_done("create_project",
                                 IF "id" \in DOMAIN project THEN None ELSE "'id'",
                                 "setup_variables")
    /\ UNCHANGED <<detected_stacks, root_path, fs, prev, pc, base_priority,
                   detectors>>

\* line 236
DeploySetupVariables ==
    /\ pc = "deploy_project" /\ cli.pc = "setup_variables"
    /\ \E raised \in StepOutcomes("setup_variables") :
          cli' = step_done("setup_variables", raised, "sonar_create_project")
    /\ UNCHANGED <<detected_stacks, root_path, fs, result, prev, pc,
                   base_priority, detectors>>

\* line 241: sonar.create_project returns True or False, or raises
DeploySonarCreateProject ==
    /\ pc = "deploy_project" /\ cli.pc = "sonar_create_project"
    /\ \/ \E raised \in StepOutcomes("sonar_create_project") \ {None} :
             /\ cli' = step_done("sonar_create_project", raised, "push_code")
             /\ UNCHANGED result
       \/ \E created \in BOOLEAN :
             /\ result' = [result EXCEPT !.sonarqube_project = created]
             /\ cli' = step_done("sonar_create_project", None, "push_code")
    /\ UNCHANGED <<detected_stacks, root_path, fs, prev, pc, base_priority,
                   detectors>>

\* lines 246-254: push the code, then wait only if wait_for_pipeline
DeployPushCode ==
    /\ pc = "deploy_project" /\ cli.pc = "push_code"
    /\ \E raised \in StepOutcomes("push_code") :
          cli' = step_done("push_code", raised,
                           IF cli.wait_for_pipeline THEN "wait_for_pipeline"
                           ELSE "print_summary")
    /\ UNCHANGED <<detected_stacks, root_path, fs, result, prev, pc,
                   base_priority, detectors>>

\* lines 257-260
DeployWaitForPipeline ==
    /\ pc = "deploy_project" /\ cli.pc = "wait_for_pipeline"
    /\ \/ \E raised \in StepOutcomes("wait_for_pipeline") \ {None} :
             /\ cli' = step_done("wait_for_pipeline", raised, "print_summary")
             /\ UNCHANGED result
       \/ \E status \in {"success", "failed", "canceled", "timeout", "unknown"} :
             /\ result' = [result EXCEPT
                              !.pipeline_status = status,
                              !.pipeline_url = IF status = "unknown" THEN None
                                               ELSE "http://gitlab/p/1"]
             /\ cli' = step_done("wait_for_pipeline", None, "print_summary")
    /\ UNCHANGED <<detected_stacks, root_path, fs, prev, pc, base_priority,
                   detectors>>

\* line 266
DeployPrintSummary ==
    /\ pc = "deploy_project" /\ cli.pc = "print_summary"
    /\ \E raised \in StepOutcomes("print_summary") :
          cli' = step_done("print_summary", raised, "return")
    /\ UNCHANGED <<detected_stacks, root_path, fs, result, prev, pc,
                   base_priority, detectors>>

\* lines 268-270: result["errors"].append(str(e))
DeployExcept ==
    /\ pc = "deploy_project" /\ cli.pc = "except"
    /\ result' = [result EXCEPT !.errors = Append(@, cli.raised)]
    /\ cli' = [cli EXCEPT !.pc = "return"]
    /\ UNCHANGED <<detected_stacks, root_path, fs, prev, pc, base_priority,
                   detectors>>

\* line 272: return result
DeployReturn ==
    /\ pc = "deploy_project" /\ cli.pc = "return"
    /\ cli' = [cli EXCEPT !.pc = "returned"]
    /\ UNCHANGED <<detected_stacks, root_path, fs, result, prev, pc,
                   base_priority, detectors>>

NextDeploy ==
    \/ DeployCreateProject \/ DeploySetupVariables \/ DeploySonarCreateProject
    \/ DeployPushCode \/ DeployWaitForPipeline \/ DeployPrintSummary
    \/ DeployExcept \/ DeployReturn

SpecDeploy == InitDeploy /\ [][NextDeploy]_vars

\* the order of the steps of one deployment
deploy_order(wait) ==
    <<"create_project", "setup_variables", "sonar_create_project", "push_code">>
        \o (IF wait THEN <<"wait_for_pipeline">> ELSE <<>>)
        \o <<"print_summary">>

is_prefix(s, t) == Len(s) <= Len(t) /\ SubSeq(t, 1, Len(s)) = s

\* C24: the steps of deploy_project run in the fixed order create GitLab
\* project, configure variables, create SonarQube project, push code and,
\* only with wait_for_pipeline, wait for the pipeline; once a step has
\* raised it is the last step that ran, its error text is the one entry of
\* result["errors"] when deploy_project returns, and a run without a raise
\* returns after all its steps with no error.
C24_StepsInOrderErrorsCollected ==
    pc = "deploy_project" =>
        /\ is_prefix(cli.steps, deploy_order(cli.wait_for_pipeline))
        /\ cli.raised # None =>
              /\ cli.pc \in {"except", "return", "returned"}
              /\ cli.steps # <<>>
        /\ cli.pc \in {"return", "returned"} =>
              IF cli.raised # None
              THEN result.errors = <<cli.raised>>
              ELSE /\ result.errors = <<>>
                   /\ cli.steps = deploy_order(cli.wait_for_pipeline)
        /\ cli.pc \notin {"return", "returned"} => result.errors = <<>>

\* a deployment whose push failed has returned: the first three steps and
\* the push ran, the wait did not, and the error is in the result
C24_Witness ==
    /\ pc = "deploy_project"
    /\ cli.pc = "returned"
    /\ cli.wait_for_pipeline
    /\ cli.steps = <<"create_project", "setup_variables",
                     "sonar_create_project", "push_code">>
    /\ result.errors = <<"copytree failed">>
    /\ result.sonarqube_project = TRUE
    /\ result.pipeline_status = None

\* ------------------------------------------------------------------------
\* analyzer.py: Analyzer(recursive=False), _analyze_single
\* ------------------------------------------------------------------------
\* lines 49-55: the body of the loop for one detector
analyze_single_detector(results, detector) ==
    LET found == detect(detector, <<>>)
    IN  IF found.kind = "stack" THEN Append(results, found.stack) ELSE results

InitSingle ==
    /\ detectors \in {<<a, b>> : a \in ReactDetectors, b \in ExpressDetectors}
    /\ detected_stacks = <<>>
    /\ root_path = <<>>
    /\ fs = << >>
    /\ result = [seen_paths |-> {}, discovered |-> <<>>, detector |-> 1]
    /\ prev = NoPrev
    /\ pc = "analyze_single"
    /\ base_priority = 0
    /\ cli = [command |-> "none"]

AnalyzeSingleDetector ==
    /\ pc = "analyze_single"
    /\ result.detector <= Len(detectors)
    /\ detected_stacks' =
           analyze_single_detector(detected_stacks, detectors[result.detector])
    /\ result' = [result EXCEPT !.detector =
                     after_detector(
                         result.detector, Len(detectors),
                         detect(detectors[result.detector], <<>>).kind = "raise")]
    /\ UNCHANGED <<root_path, fs, prev, pc, base_priority, detectors, cli>>

\* line 57: return results
AnalyzeSingleReturn ==
    /\ pc = "analyze_single"
    /\ result.detector > Len(detectors)
    /\ pc' = "analyzed"
    /\ UNCHANGED <<detected_stacks, root_path, fs, result, prev, base_priority,
                   detectors, cli>>

\* lines 40-43: analyze() in either mode
NextAnalyzer ==
    \/ AnalyzeDetector \/ AnalyzeReturn
    \/ AnalyzeSingleDetector \/ AnalyzeSingleReturn

SpecAnalyzer == (InitAnalyze \/ InitSingle) /\ [][NextAnalyzer]_vars

\* the stack the detector whose turn it is finds at the root, as the
\* analysis collects it
root_stack_now == detect(detectors[result.detector], <<>>).stack

collects_root_now ==
    /\ detect(detectors[result.detector], <<>>).kind = "stack"
    /\ \/ pc = "analyze_single"
       \/ dedup_key(root_stack_now) \notin result.seen_paths

\* C25: whatever a detector does, raising included, its turn ends with the
\* next detector's turn, never with the end of the analysis; the stacks
\* collected before stay at the front of the list, and a root result the
\* detector had collected before it failed stays right after them.
C25_DetectorFailureIsContained ==
    [][(pc \in {"analyze", "analyze_single"} /\ result.detector <= Len(detectors))
        => /\ pc' = pc
           /\ result'.detector = result.detector + 1
           /\ is_prefix(detected_stacks, detected_stacks')
           /\ collects_root_now =>
                 /\ Len(detected_stacks') > Len(detected_stacks)
                 /\ detected_stacks'[Len(detected_stacks) + 1] = root_stack_now]_vars

\* a recursive analysis has returned: the first detector raised at the
\* root, the second found the root project and then raised in api/, and the
\* root project is the list returned
C25_Witness ==
    /\ pc = "analyzed"
    /\ result.detector = 3
    /\ detect(detectors[1], <<>>).kind = "raise"
    /\ detect(detectors[2], <<>>).kind = "stack"
    /\ detect(detectors[2], <<"api">>).kind = "raise"
    /\ detected_stacks = <<detect(detectors[2], <<>>).stack>>

\* ------------------------------------------------------------------------
\* platform_manager.py: PlatformManager._wait_for_pipeline.  cli holds the
\* locals of the call: the polls made for the pipeline, the list of
\* pipelines GitLab answered last (get_latest_pipeline returns its first
\* element, or None when it is empty), the seconds since start_time, the status polled last and those before it;
\* result is what the call returned.
\* ------------------------------------------------------------------------
\* line 406: for _ in range(30)
PIPELINE_POLLS == 30

\* line 446: time.sleep(10)
STATUS_SLEEP == 10

\* the timeouts of the runs, in seconds (line 399: timeout: int)
Timeouts == {0, 25, 40}

\* what GitLab answers for the pipeline: status_data.get('status',
\* 'unknown') is "unknown" for an answer without a status
PolledStatuses ==
    {"pending", "running", "unknown", "success", "failed", "canceled"}

\* Faulty variant: only a successful pipeline ends the wait
is_finished_success(status) == status = "success"

\* line 443: if status in ['success', 'failed', 'canceled']
is_finished(status) == status \in {"success", "failed", "canceled"}

ThePipeline == [id |-> 1, web_url |-> "http://gitlab/p/1"]

InitWait ==
    /\ cli \in {[command |-> "wait_for_pipeline", pc |-> "poll_pipeline",
                 polls |-> 0, pipelines |-> <<>>, timeout |-> t, elapsed |-> 0,
                 status |-> None, earlier |-> {}] : t \in Timeouts}
    /\ result = [returned |-> FALSE]
    /\ detected_stacks = <<>>
    /\ root_path = <<>>
    /\ fs = << >>
    /\ prev = NoPrev
    /\ pc = "wait_for_pipeline"
    /\ base_priority = 0
    /\ detectors = <<>>

\* lines 406-410: one pass of the loop that waits for the pipeline to appear
WaitPollPipeline ==
    /\ pc = "wait_for_pipeline" /\ cli.pc = "poll_pipeline"
    /\ cli.polls < PIPELINE_POLLS
    /\ \E pipelines \in {<<>>, <<ThePipeline>>} :
          cli' = [cli EXCEPT !.polls = @ + 1,
                             !.pipelines = pipelines,
                             !.pc = IF pipelines # <<>> THEN "wait" ELSE @]
    /\ UNCHANGED <<detected_stacks, root_path, fs, result, prev, pc,
                   base_priority, detectors>>

\* lines 412-414: the loop ended without a pipeline
WaitNoPipeline ==
    /\ pc = "wait_for_pipeline" /\ cli.pc = "poll_pipeline"
    /\ cli.polls = PIPELINE_POLLS
    /\ result' = [returned |-> TRUE, status |-> "unknown", pipeline_url |-> None]
    /\ cli' = [cli EXCEPT !.pc = "returned"]
    /\ UNCHANGED <<detected_stacks, root_path, fs, prev, pc, base_priority,
                   detectors>>

\* lines 426-446: one pass of the while loop; the sleep and the requests
\* take 10 seconds or a little more
WaitPollStatus ==
    /\ pc = "wait_for_pipeline" /\ cli.pc = "wait"
    /\ cli.elapsed < cli.timeout
    /\ \E status \in PolledStatuses, delay \in {0, 1} :
          LET polled == [cli EXCEPT !.status = status,
                                    !.earlier = IF cli.status = None THEN @
                                                ELSE @ \cup {cli.status}]
          IN  IF is_finished(status)
              THEN /\ result' = [returned |-> TRUE, status |-> status,
                                 pipeline_url |-> cli.pipelines[1].web_url]
                   /\ cli' = [polled EXCEPT !.pc = "returned"]
              ELSE /\ cli' = [polled EXCEPT !.elapsed = @ + STATUS_SLEEP + delay]
                   /\ UNCHANGED result
    /\ UNCHANGED <<detected_stacks, root_path, fs, prev, pc, base_priority,
                   detectors>>

\* lines 426 and 448: the timeout has elapsed
WaitTimeout ==
    /\ pc = "wait_for_pipeline" /\ cli.pc = "wait"
    /\ cli.elapsed >= cli.timeout
    /\ result' = [returned |-> TRUE, status |-> "timeout",
                  pipeline_url |-> cli.pipelines[1].web_url]
    /\ cli' = [cli EXCEPT !.pc = "returned"]
    /\ UNCHANGED <<detected_stacks, root_path, fs, prev, pc, base_priority,
                   detectors>>

NextWait == WaitPollPipeline \/ WaitNoPipeline \/ WaitPollStatus \/ WaitTimeout

SpecWait == InitWait /\ [][NextWait]_vars

\* the call is sequential code: its next statement is always executed
SpecWaitFair == SpecWait /\ WF_vars(NextWait)

\* every status the call has polled
polled_statuses ==
    cli.earlier \cup (IF cli.status = None THEN {} ELSE {cli.status})

\* what the call returned fits what it saw
wait_return_fits ==
    (pc = "wait_for_pipeline" /\ result.returned) =>
        /\ result.status \in {"success", "failed", "canceled", "timeout", "unknown"}
        /\ result.status = "unknown" <=>
              (cli.polls = PIPELINE_POLLS /\ cli.pipelines = <<>>)
        /\ result.status = "unknown" =>
              (result.pipeline_url = None /\ polled_statuses = {})
        /\ result.status \in {"success", "failed", "canceled"} =>
              /\ result.status = cli.status
              /\ cli.earlier \cap {"success", "failed", "canceled"} = {}
              /\ result.pipeline_url = cli.pipelines[1].web_url
        /\ result.status = "timeout" =>
              /\ cli.elapsed >= cli.timeout
              /\ polled_statuses \cap {"success", "failed", "canceled"} = {}
              /\ result.pipeline_url = cli.pipelines[1].web_url

TempBase == "/tmp/autopipe"
LocalRepo == "/home/dev/repo"
OutputDir == "/tmp/autopipe/demo-output"
TempDirs == {"/tmp/autopipe/autopipe_1", "/tmp/autopipe/autopipe_2"}

\* the directory a Fetcher's cleanup looks at
\* Faulty variant: without a temporary directory the local path is taken
cleanup_target_any(fetcher) ==
    IF fetcher.temp_dir # None THEN fetcher.temp_dir ELSE fetcher.local_path

\* line 42: self.temp_dir
cleanup_target(fetcher) == fetcher.temp_dir

\* lines 41-44: the directories cleanup() removes
cleanup(fetcher, dirs) ==
    IF cleanup_target(fetcher) # None /\ cleanup_target(fetcher) \in dirs
    THEN {cleanup_target(fetcher)}
    ELSE {}

InitFetch ==
    /\ fs \in {{LocalRepo} \cup others :
                  others \in SUBSET {TempBase, OutputDir, "/tmp/autopipe/autopipe_1"}}
    /\ cli \in {[command |-> c, repo_url_or_path |-> r, pc |-> "fetch",
                 temp_dir |-> None, local_path |-> None, removed |-> {},
                 clone_failed |-> FALSE] :
                   c \in Commands,
                   r \in {LocalRepo, "/home/dev/missing", "https://host/repo.git"}}
    /\ prev = [kind |-> "fetch", fs |-> fs]
    /\ detected_stacks = <<>>
    /\ root_path = <<>>
    /\ result = None
    /\ pc = "fetcher"
    /\ base_priority = 0
    /\ detectors = <<>>

\* lines 22-26: the input is an existing directory
FetchLocal ==
    /\ pc = "fetcher" /\ cli.pc = "fetch"
    /\ cli.repo_url_or_path \in fs
    /\ cli' = [cli EXCEPT !.local_path = cli.repo_url_or_path, !.pc = "run"]
    /\ UNCHANGED <<detected_stacks, root_path, fs, result, prev, pc,
                   base_priority, detectors>>

\* lines 29-31: mkdir of the base and mkdtemp, which makes a new directory
FetchMkdtemp ==
    /\ pc = "fetcher" /\ cli.pc = "fetch"
    /\ cli.repo_url_or_path \notin fs
    /\ \E dir \in TempDirs \ fs :
          /\ fs' = fs \cup {TempBase, dir}
          /\ cli' = [cli EXCEPT !.temp_dir = dir, !.pc = "clone"]
    /\ UNCHANGED <<detected_stacks, root_path, result, prev, pc,
                   base_priority, detectors>>

\* lines 33-39: the clone succeeds, or fails: cleanup() and raise
FetchClone ==
    /\ pc = "fetcher" /\ cli.pc = "clone"
    /\ \/ /\ cli.repo_url_or_path = "https://host/repo.git"
          /\ cli' = [cli EXCEPT !.pc = "run"]
          /\ UNCHANGED fs
       \/ /\ cli' = [cli EXCEPT !.removed = @ \cup cleanup(cli, fs),
                                !.clone_failed = TRUE,
                                !.pc = "except"]
          /\ fs' = fs \ cleanup(cli, fs)
    /\ UNCHANGED <<detected_stacks, root_path, result, prev, pc,
                   base_priority, detectors>>

\* the rest of the try block: it ends, raises or calls sys.exit
FetchRun ==
    /\ pc = "fetcher" /\ cli.pc = "run"
    /\ \E next \in {"finally", "except"} : cli' = [cli EXCEPT !.pc = next]
    /\ UNCHANGED <<detected_stacks, root_path, fs, result, prev, pc,
                   base_priority, detectors>>

\* cli.py, lines 96-98 and 265-267: log and sys.exit(1)
FetchExcept ==
    /\ pc = "fetcher" /\ cli.pc = "except"
    /\ cli' = [cli EXCEPT !.pc = "finally"]
    /\ UNCHANGED <<detected_stacks, root_path, fs, result, prev, pc,
                   base_priority, detectors>>

\* cli.py, lines 99-100 and 268-269: finally: fetcher.cleanup()
FetchFinally ==
    /\ pc = "fetcher" /\ cli.pc = "finally"
    /\ cli' = [cli EXCEPT !.removed = @ \cup cleanup(cli, fs), !.pc = "exited"]
    /\ fs' = fs \ cleanup(cli, fs)
    /\ UNCHANGED <<detected_stacks, root_path, result, prev, pc,
                   base_priority, detectors>>

NextFetch ==
    \/ FetchLocal \/ FetchMkdtemp \/ FetchClone \/ FetchRun \/ FetchExcept
    \/ FetchFinally

SpecFetch == InitFetch /\ [][NextFetch]_vars

nodejs_frontend(stack) ==
    stack.language = "nodejs" /\ stack.framework \in {"react", "vue", "angular"}

OtherListedLanguages ==
    {"java", "kotlin", "dotnet", "go", "python", "php", "typescript"}

\* C30: the score of a Node.js candidate with React, Vue or Angular is
\* strictly greater than the score of every candidate of Java, Kotlin,
\* .NET, Go, Python, PHP or TypeScript, whatever the frameworks and flags of
\* the two.
C30_NodeFrontendRanksLast ==
    (pc = "return" /\ nodejs_frontend(detected_stacks[1])) =>
        \A other \in AllStacks :
            other.language \in OtherListedLanguages
                => base_priority > _get_priority(other)

\* the closest pair: Node.js with Angular, a Dockerfile and tests scores
\* 912, TypeScript without framework or flags 650
C30_Witness ==
    /\ pc = "return"
    /\ detected_stacks[1] = DetectedStack("nodejs", "angular", TRUE, TRUE, None)
    /\ base_priority = 912
    /\ _get_priority(DetectedStack("typescript", "none", FALSE, FALSE, None)) = 650
    /\ \A other \in AllStacks :
          other.language \in OtherListedLanguages => _get_priority(other) <= 650

====
